---- MODULE Spec2Model ----
(***************************************************************************)
(* The per-issue coding loop of execution/coding_loop.py:                  *)
(*   coder -> parallel(QA, reviewer) -> synthesizer -> fix/approve/block   *)
(* One action per stretch of run_coding_loop between two awaits: asyncio   *)
(* runs such a stretch without interleaving, and the two arms of the       *)
(* asyncio.gather resolve in either order.                                 *)
(***************************************************************************)
EXTENDS Integers, Sequences, FiniteSets, TLC

\* ------------------------------------------------------------------ bounds

\* Largest max_coding_iterations a run is configured with.
MaxIter == 2

\* How many times run_coding_loop is entered for one issue (the first run and
\* the runs after a crash or a re-invocation).
MaxRuns == 2

\* Longest history and largest window handed to the stuck-loop detector.
MaxHistory == 4
MaxWindow == 3

\* ------------------------------------------------------ program constants

\* ExecutionConfig.max_coding_iterations, as configured by default.
DefaultMaxIterations == 5

\* ------------------------------------------------------------- data model

\* IssueOutcome (closed enum).
IssueOutcome ==
  {"completed", "completed_with_debt", "failed_retryable", "failed_unrecoverable",
   "failed_needs_split", "failed_escalated", "skipped"}

\* What a worker behind call_fn can do with a call: answer, raise, or not
\* answer before the deadline.
WorkerBehaviour(answers) ==
  {[raw |-> "ok", value |-> a] : a \in answers}
    \cup {[raw |-> r, value |-> [none |-> TRUE]] : r \in {"raise", "hang"}}

\* _call_with_timeout: asyncio.wait_for turns a missing answer into a
\* TimeoutError; an answer or an exception of the worker passes through.
CallWithTimeout(raw) ==
  CASE raw = "hang"  -> "timeout"
    [] raw = "raise" -> "error"
    [] OTHER         -> "ok"

\* Both RuntimeError-like worker errors and TimeoutError are Exceptions.
IsException(kind) == kind \in {"error", "timeout"}

\* `except Exception` around the coder call.
CoderCaught_NoTimeout(kind) == kind = "error"
CoderCaught(kind) == IsException(kind)

\* `except Exception` around the synthesizer call.
SynthCaught_NoTimeout(kind) == kind = "error"
SynthCaught(kind) == IsException(kind)

\* The files a coder answer may report (lists, as the coder returns them).
CoderOutputs == {<< >>, <<"a.py">>, <<"b.py", "a.py">>}

\* The answers of the QA, reviewer and synthesizer workers.
QAAnswers == [passed : BOOLEAN, summary : {"qa_summary"}]
ReviewAnswers == [approved : BOOLEAN, blocking : BOOLEAN, summary : {"review_summary"}]
SynthAnswers ==
  [action : {"fix", "approve", "block"}, summary : {"synth_summary"}, stuck : BOOLEAN]

NoValue == [none |-> TRUE]
\* A call that has not been made (or whose result is no longer in scope).
NoCall == [kind |-> "none", value |-> << >>]
Idle == [kind |-> "idle", value |-> NoValue, input |-> << >>]
NoDecision == [action |-> "none", summary |-> "", stuck |-> FALSE]
NoResult ==
  [outcome |-> "none", attempts |-> 0, error_message |-> [text |-> "", arg |-> ""],
   result_summary |-> "", files_changed |-> << >>, iteration_history |-> << >>]

InSeq(x, s) == \E i \in 1..Len(s) : s[i] = x

\* for f in coder_result["files_changed"]: if f not in files_changed: append
RECURSIVE TrackFiles(_, _)
TrackFiles_Append(fc, new) == fc \o new
TrackFiles(fc, new) ==
  IF new = << >> THEN fc
  ELSE TrackFiles(IF InSeq(Head(new), fc) THEN fc ELSE Append(fc, Head(new)), Tail(new))

\* Safe defaults substituted for a failed arm of the gather.
QADefault_Passed == [passed |-> TRUE, summary |-> "qa_agent_failed"]
QADefault == [passed |-> FALSE, summary |-> "qa_agent_failed"]
ReviewDefault_Blocking == [approved |-> FALSE, blocking |-> TRUE, summary |-> "review_unavailable"]
ReviewDefault == [approved |-> TRUE, blocking |-> FALSE, summary |-> "review_unavailable"]

\* if isinstance(qa_result, Exception): qa_result = {...}
ResolveQA_Both(qa, review) ==
  IF IsException(qa.kind) \/ IsException(review.kind) THEN QADefault ELSE qa.value
ResolveQA(qa, review) == IF IsException(qa.kind) THEN QADefault ELSE qa.value

\* if isinstance(review_result, Exception): review_result = {...}
ResolveReview_Both(qa, review) ==
  IF IsException(qa.kind) \/ IsException(review.kind) THEN ReviewDefault ELSE review.value
ResolveReview(qa, review) ==
  IF IsException(review.kind) THEN ReviewDefault ELSE review.value

\* Smart fallback: derive the action from the raw QA/review results.
Fallback_ApproveOnReview(qa, review) ==
  IF review.approved /\ ~review.blocking
    THEN [action |-> "approve", summary |-> "auto_approve", stuck |-> FALSE]
    ELSE IF review.blocking
      THEN [action |-> "block", summary |-> "auto_block", stuck |-> FALSE]
      ELSE [action |-> "fix", summary |-> "auto_fix", stuck |-> FALSE]
Fallback(qa, review) ==
  IF qa.passed /\ review.approved /\ ~review.blocking
    THEN [action |-> "approve", summary |-> "auto_approve", stuck |-> FALSE]
    ELSE IF review.blocking
      THEN [action |-> "block", summary |-> "auto_block", stuck |-> FALSE]
      ELSE [action |-> "fix", summary |-> "auto_fix", stuck |-> FALSE]

\* iteration_history.append({...})
HistoryEntry(it, synth, qa, review) ==
  [iteration |-> it, action |-> synth.action, summary |-> synth.summary,
   qa_passed |-> qa.passed, review_approved |-> review.approved,
   review_blocking |-> review.blocking]

\* Message texts; arg carries the summary a message embeds.
Msg(text, arg) == [text |-> text, arg |-> arg]
NoMsg == Msg("", "")

\* IssueResult(...) as run_coding_loop fills it.
IssueResult(outcome, att, err, summary, fc, hist) ==
  [outcome |-> outcome, attempts |-> att, error_message |-> err,
   result_summary |-> summary, files_changed |-> fc, iteration_history |-> hist]

Call(role, it) == [role |-> role, iteration |-> it]

\* DAGState: the fields the loop reads and the progress the orchestrator
\* keeps in it.
DAGState(artifacts_dir, completed, failed, replans) ==
  [artifacts_dir |-> artifacts_dir, repo_path |-> "repo",
   levels |-> <<<<"ISSUE-1">>>>,
   completed_issues |-> completed, failed_issues |-> failed,
   skipped_issues |-> << >>, in_flight_issues |-> <<"ISSUE-1">>,
   replan_count |-> replans, replan_history |-> [i \in 1..replans |-> "continue"],
   accumulated_debt |-> << >>, adaptation_history |-> << >>]

\* A plan in progress with an artifacts directory, as the tests build it.
TestDagState == DAGState("artifacts", << >>, << >>, 0)

\* Plans the loop may be handed: with or without an artifacts directory
\* (DAGState.artifacts_dir defaults to ""), at different points of progress.
DagStates ==
  {DAGState("artifacts", <<"ISSUE-0">>, <<"ISSUE-2">>, 1),
   DAGState("", << >>, << >>, 0)}

\* _iteration_state_path: no artifacts directory, no checkpoint file.
NoPath == [dir |-> "", name |-> ""]

IterationStatePath_OneFile(artifacts_dir, issue_name) ==
  IF artifacts_dir = "" THEN NoPath ELSE [dir |-> artifacts_dir, name |-> "state"]
IterationStatePath(artifacts_dir, issue_name) ==
  IF artifacts_dir = "" THEN NoPath ELSE [dir |-> artifacts_dir, name |-> issue_name]

\* issue.get("name", "unknown") of the issue the loop of this model runs.
IssueName == "ISSUE-1"

\* The stuck-loop detector and its default window, as the tests of
\* _detect_stuck_loop describe it: the last `window` entries are all
\* non-blocking fixes.
StuckWindow == 3

DetectStuckLoop_WholeHistory(history, w) ==
  /\ Len(history) >= w
  /\ \A i \in 1..Len(history) :
       /\ history[i].action = "fix"
       /\ ~history[i].review_blocking
DetectStuckLoop(history, w) ==
  /\ Len(history) >= w
  /\ \A i \in (Len(history) - w + 1)..Len(history) :
       /\ history[i].action = "fix"
       /\ ~history[i].review_blocking

\* ------------------------------------------------------------------ state

VARIABLES
  pc,                \* where run_coding_loop stands
  max_iterations,    \* config.max_coding_iterations
  iteration,         \* the loop variable
  feedback,          \* merged feedback handed to the coder
  files_changed,     \* list of files changed so far
  iteration_history, \* list of per-iteration summaries
  checkpoint,        \* the issue's iteration-state file (NoValue: absent)
  coder_result,      \* how the coder call of this iteration ended, and its answer
  qa_arm,            \* QA arm of the gather
  review_arm,        \* reviewer arm of the gather
  qa_result,         \* QA result after the gather (real or default)
  review_result,     \* review result after the gather (real or default)
  synth_kind,        \* how the synthesizer call of this iteration ended
  synthesis_result,  \* decision of this iteration
  calls,             \* the calls made through call_fn, in order, over all runs
  result,            \* the returned IssueResult (NoResult: none yet)
  dag_state,         \* the DAGState argument
  run,               \* which run of the issue this is (1: the first)
  note_fn,           \* whether a note sink was supplied
  notes,             \* what the note sink received from this run, in order
  window,            \* the window handed to the stuck-loop detector
  detected,          \* what the stuck-loop detector answered
  at_start,          \* the checkpoint files as they were when the run began
  store,             \* the checkpoint files of a plan, by path
  loops,             \* the coding loops of a plan, by issue name
  issues,            \* the issues of a plan as the orchestrator holds them
  build,             \* whether the plan runs, escalated or was aborted
  plan,              \* the DAGState of the plan
  records,           \* PermissionsRepository._records
  user_teams,        \* PermissionsRepository._user_teams
  documents,         \* ContextAssembler._documents
  adrs               \* ContextAssembler._adrs

detect_vars == <<window, detected>>
conc_vars == <<store, loops>>
plan_vars == <<issues, build, plan>>
perm_vars == <<records, user_teams>>
ctx_vars == <<documents, adrs>>

\* The state outside run_coding_loop.
other_vars == <<detect_vars, at_start, conc_vars, plan_vars, perm_vars, ctx_vars>>

\* The state of run_coding_loop and of what it is handed.
loop_vars ==
  <<pc, max_iterations, iteration, feedback, files_changed, iteration_history,
    checkpoint, coder_result, qa_arm, review_arm, qa_result, review_result,
    synth_kind, synthesis_result, calls, result, dag_state, run, note_fn, notes>>

vars == <<loop_vars, other_vars>>

\* The locals of one iteration, not yet assigned.
FreshLocals ==
  /\ coder_result = NoCall
  /\ qa_arm = Idle
  /\ review_arm = Idle
  /\ qa_result = NoValue
  /\ review_result = NoValue
  /\ synth_kind = "none"
  /\ synthesis_result = NoDecision

\* The locals are unassigned again at the top of an iteration.
ResetLocals ==
  /\ coder_result' = NoCall
  /\ qa_arm' = Idle
  /\ review_arm' = Idle
  /\ qa_result' = NoValue
  /\ review_result' = NoValue
  /\ synth_kind' = "none"
  /\ synthesis_result' = NoDecision

\* note_fn(message, tags=["coding_loop", stage, issue_name])
Note(stage) == [tags |-> <<"coding_loop", stage, IssueName>>]

\* `if note_fn: note_fn(...)`, for the notes of one stretch of the loop.
Emit(stages) ==
  notes' = IF note_fn THEN notes \o [i \in 1..Len(stages) |-> Note(stages[i])]
           ELSE notes

\* The parts of the state outside run_coding_loop, when they are not modelled.
DetectAtRest == window = StuckWindow /\ detected = FALSE
LiveAtRest == at_start = NoValue
ConcAtRest == store = << >> /\ loops = << >>
PlanAtRest == issues = << >> /\ build = "none" /\ plan = NoValue
PermAtRest == records = << >> /\ user_teams = << >>
CtxAtRest == documents = << >> /\ adrs = << >>

OthersAtRest ==
  /\ DetectAtRest
  /\ LiveAtRest
  /\ ConcAtRest
  /\ PlanAtRest
  /\ PermAtRest
  /\ CtxAtRest

\* run_coding_loop is entered for an issue whose checkpoint file is one of
\* `files` (NoValue: there is none).
InitLoopFrom(maxes, dags, sinks, files) ==
  /\ pc = "start"
  /\ max_iterations \in maxes
  /\ iteration = 0
  /\ feedback = ""
  /\ files_changed = << >>
  /\ iteration_history = << >>
  /\ checkpoint \in files
  /\ FreshLocals
  /\ calls = << >>
  /\ result = NoResult
  /\ dag_state \in dags
  /\ run = 1
  /\ note_fn \in sinks
  /\ notes = << >>

\* run_coding_loop is entered for an issue that has no checkpoint yet.
InitLoop(maxes, dags, sinks) == InitLoopFrom(maxes, dags, sinks, {NoValue})

\* The first run of an issue: nothing has been checkpointed yet.
InitSink(maxes, dags, sinks) == InitLoop(maxes, dags, sinks) /\ OthersAtRest

\* A run without a note sink (note_fn defaults to None).
InitRun(maxes, dags) == InitSink(maxes, dags, {FALSE})

InitWith(maxes) == InitRun(maxes, {TestDagState})

Init == InitWith(1..MaxIter)

\* ------------------------------------------------------- returned results

\* Lines 154-163: the coder call failed.
CoderFailed_NoFiles(it, kind, fc, hist) ==
  IssueResult("failed_unrecoverable", it, Msg("coder_agent_failed", kind), "", << >>, hist)
CoderFailed_CompletedAttempts(it, kind, fc, hist) ==
  IssueResult("failed_unrecoverable", it - 1, Msg("coder_agent_failed", kind), "", fc, hist)
CoderFailed(it, kind, fc, hist) ==
  IssueResult("failed_unrecoverable", it, Msg("coder_agent_failed", kind), "", fc, hist)

\* Lines 315-323: action == "approve".
Approved_AsDebt(it, summary, fc, hist) ==
  IssueResult("completed_with_debt", it, NoMsg, summary, fc, hist)
Approved(it, summary, fc, hist) ==
  IssueResult("completed", it, NoMsg, summary, fc, hist)

\* Lines 331-339: action == "block".
Blocked_Retryable(it, summary, fc, hist) ==
  IssueResult("failed_retryable", it, Msg("summary", summary), "", fc, hist)
Blocked(it, summary, fc, hist) ==
  IssueResult("failed_unrecoverable", it, Msg("summary", summary), "", fc, hist)

\* Lines 351-359: the synthesizer reported stuck.
Stuck_Escalated(it, summary, fc, hist) ==
  IssueResult("failed_escalated", it, Msg("stuck_loop_detected", summary), "", fc, hist)
Stuck_Completed(it, summary, fc, hist) ==
  IssueResult("completed", it, NoMsg, summary, fc, hist)
Stuck(it, summary, fc, hist) ==
  IssueResult("failed_unrecoverable", it, Msg("stuck_loop_detected", summary), "", fc, hist)

\* Lines 368-376: loop exhausted without approval (also when the range of
\* the for is empty).
Exhausted_AsDebt(fc, hist) ==
  IssueResult("completed_with_debt", max_iterations,
              Msg("coding_loop_exhausted", ""), "", fc, hist)
Exhausted_CountsHistory(fc, hist) ==
  IssueResult("failed_unrecoverable", Len(hist),
              Msg("coding_loop_exhausted", ""), "", fc, hist)
Exhausted(fc, hist) ==
  IssueResult("failed_unrecoverable", max_iterations,
              Msg("coding_loop_exhausted", ""), "", fc, hist)

\* `return IssueResult(...)`: the result goes to the caller, the DAGState
\* argument is left as it was handed in.
Return_FoldsIntoDag(res) ==
  /\ pc' = "returned"
  /\ result' = res
  /\ dag_state' =
       IF res.outcome = "completed"
         THEN [dag_state EXCEPT !.completed_issues = Append(@, "ISSUE-1")]
         ELSE [dag_state EXCEPT !.failed_issues = Append(@, "ISSUE-1")]
Return(res) ==
  /\ pc' = "returned"
  /\ result' = res
  /\ dag_state' = dag_state

\* ---------------------------------------------------------------- actions

\* Head of `for iteration in range(start_iteration, max_iterations + 1)`.
LoopContinues_OffByOne(it) == it < max_iterations
LoopContinues_OneMore(it) == it <= max_iterations + 1
LoopContinues(it) == it <= max_iterations

\* The note at the head of iteration `it` (line 127), or the note after the
\* loop when there is no such iteration (line 365).
HeadNotes(it) == IF LoopContinues(it) THEN <<"iteration">> ELSE <<"exhausted">>

\* Either the coder call of iteration `it` is dispatched with fresh locals,
\* or the loop is over and the exhaustion result is returned.
LoopHead(it, fc, hist) ==
  IF LoopContinues(it)
    THEN /\ pc' = "coder"
         /\ iteration' = it
         /\ calls' = Append(calls, Call("run_coder", it))
         /\ ResetLocals
         /\ UNCHANGED <<result, dag_state>>
    ELSE /\ Return(Exhausted(fc, hist))
         /\ UNCHANGED <<iteration, calls, coder_result, qa_arm, review_arm, qa_result,
                        review_result, synth_kind, synthesis_result>>

\* A checkpoint file whose content is not the JSON the loop wrote.
Corrupt == [corrupt |-> TRUE]

\* _load_iteration_state: None without a path or without a file.
LoadIterationState(artifacts_dir, file) ==
  IF IterationStatePath(artifacts_dir, IssueName) = NoPath THEN NoValue ELSE file

\* start_iteration = existing_state.get("iteration", 0) + 1
StartIteration_Same(state) == state.iteration
StartIteration_Reset(state) == 1
StartIteration(state) == state.iteration + 1

\* feedback = existing_state.get("feedback", "")
ResumedFeedback_Empty(state) == ""
ResumedFeedback(state) == state.feedback

\* Lines 79-132: initial values, resume from the checkpoint if there is one,
\* then the head of the loop.
StartLoop ==
  /\ pc = "start"
  /\ checkpoint # Corrupt
  /\ LET existing_state == LoadIterationState(dag_state.artifacts_dir, checkpoint)
         resumed == existing_state # NoValue
         start_iteration == IF resumed THEN StartIteration(existing_state) ELSE 1
         fb == IF resumed THEN ResumedFeedback(existing_state) ELSE ""
         fc == IF resumed THEN existing_state.files_changed ELSE << >>
         hist == IF resumed THEN existing_state.iteration_history ELSE << >>
     IN /\ feedback' = fb
        /\ files_changed' = fc
        /\ iteration_history' = hist
        /\ LoopHead(start_iteration, fc, hist)
        /\ Emit(<<"start">> \o (IF resumed THEN <<"resume">> ELSE << >>)
                   \o HeadNotes(start_iteration))
  /\ UNCHANGED <<max_iterations, checkpoint, run>>
  /\ UNCHANGED <<note_fn, other_vars>>

\* The note of the handler around the coder call (line 152).
CoderNotes_Silent(kind) == << >>
CoderNotes(kind) == IF CoderCaught(kind) THEN <<"coder_error">> ELSE << >>

\* Lines 130-202: the coder call ends. A failure ends the loop; an answer is
\* folded into files_changed and both verify calls are handed to the gather.
CoderReturns(outputs) ==
  /\ pc = "coder"
  /\ \E w \in WorkerBehaviour(outputs) :
       LET kind == CallWithTimeout(w.raw) IN
       /\ coder_result' = [kind |-> kind, value |-> IF kind = "ok" THEN w.value ELSE << >>]
       /\ Emit(CoderNotes(kind))
       /\ IF kind = "ok"
            THEN /\ files_changed' = TrackFiles(files_changed, w.value)
                 /\ qa_arm' = [kind |-> "inflight", value |-> NoValue, input |-> w.value]
                 /\ review_arm' = [kind |-> "inflight", value |-> NoValue, input |-> w.value]
                 /\ calls' = calls \o <<Call("run_qa", iteration),
                                        Call("run_code_reviewer", iteration)>>
                 /\ pc' = "verify"
                 /\ UNCHANGED <<result, dag_state>>
            ELSE /\ IF CoderCaught(kind)
                      THEN Return(CoderFailed(iteration, kind, files_changed,
                                              iteration_history))
                      ELSE /\ pc' = "raised"
                           /\ UNCHANGED <<result, dag_state>>
                 /\ UNCHANGED <<files_changed, qa_arm, review_arm, calls>>
  /\ UNCHANGED <<max_iterations, iteration, feedback, iteration_history, checkpoint,
                 qa_result, review_result, synth_kind, synthesis_result, run>>
  /\ UNCHANGED <<note_fn, other_vars>>

\* One arm of asyncio.gather(..., return_exceptions=True) resolves: the QA call.
QAResolves(answers) ==
  /\ pc = "verify"
  /\ qa_arm.kind = "inflight"
  /\ \E w \in WorkerBehaviour(answers) :
       qa_arm' = [qa_arm EXCEPT !.kind = CallWithTimeout(w.raw), !.value = w.value]
  /\ UNCHANGED <<pc, max_iterations, iteration, feedback, files_changed,
                 iteration_history, checkpoint, coder_result, review_arm, qa_result,
                 review_result, synth_kind, synthesis_result, calls, result,
                 dag_state, run, notes>>
  /\ UNCHANGED <<note_fn, other_vars>>

\* The other arm resolves: the reviewer call.
ReviewResolves(answers) ==
  /\ pc = "verify"
  /\ review_arm.kind = "inflight"
  /\ \E w \in WorkerBehaviour(answers) :
       review_arm' = [review_arm EXCEPT !.kind = CallWithTimeout(w.raw),
                                        !.value = w.value]
  /\ UNCHANGED <<pc, max_iterations, iteration, feedback, files_changed,
                 iteration_history, checkpoint, coder_result, qa_arm, qa_result,
                 review_result, synth_kind, synthesis_result, calls, result,
                 dag_state, run, notes>>
  /\ UNCHANGED <<note_fn, other_vars>>

\* The gather returns once every arm has resolved.
GatherDone_Any(qa, review) == qa.kind # "inflight" \/ review.kind # "inflight"
GatherDone(qa, review) == qa.kind # "inflight" /\ review.kind # "inflight"

\* The notes after the gather (lines 209-239): one per failed arm, then the
\* feedback note.
VerifyNotes(qa, review) ==
  (IF IsException(qa.kind) THEN <<"qa_error">> ELSE << >>)
    \o (IF IsException(review.kind) THEN <<"review_error">> ELSE << >>)
    \o <<"feedback">>

\* Lines 204-263: the gather returns, failed arms get their defaults, the
\* synthesizer call is dispatched. call_fn hands back an awaitable, so a
\* failing call surfaces in its own arm; the handler around the gather (lines
\* 223-231) substitutes the same two defaults as both arms failing.
VerifyJoin ==
  /\ pc = "verify"
  /\ GatherDone(qa_arm, review_arm)
  /\ qa_result' = ResolveQA(qa_arm, review_arm)
  /\ review_result' = ResolveReview(qa_arm, review_arm)
  /\ calls' = Append(calls, Call("run_qa_synthesizer", iteration))
  /\ Emit(VerifyNotes(qa_arm, review_arm))
  /\ pc' = "synth"
  /\ UNCHANGED <<max_iterations, iteration, feedback, files_changed, iteration_history,
                 checkpoint, coder_result, qa_arm, review_arm, synth_kind,
                 synthesis_result, result, dag_state, run>>
  /\ UNCHANGED <<note_fn, other_vars>>

\* The state handed to _save_iteration_state.
SavedState_Previous(it, summary, fc, hist) ==
  [iteration |-> it - 1, feedback |-> summary, files_changed |-> fc,
   iteration_history |-> hist]
SavedState_NoFeedback(it, summary, fc, hist) ==
  [iteration |-> it, feedback |-> "", files_changed |-> fc, iteration_history |-> hist]
SavedState(it, summary, fc, hist) ==
  [iteration |-> it, feedback |-> summary, files_changed |-> fc,
   iteration_history |-> hist]

\* _save_iteration_state: writes the file, or nothing without a path.
SaveIterationState_Never(artifacts_dir, file, state) == file
SaveIterationState(artifacts_dir, file, state) ==
  IF IterationStatePath(artifacts_dir, IssueName) = NoPath THEN file ELSE state

\* dict.get(key, default) on a worker's answer.
Get(answer, key, default) == IF key \in DOMAIN answer THEN answer[key] ELSE default

\* Lines 281, 282 and 345: what the loop reads of the decision. An answer
\* without an action counts as a fix.
Decision_DefaultApprove(answer) ==
  [action |-> Get(answer, "action", "approve"), summary |-> Get(answer, "summary", ""),
   stuck |-> Get(answer, "stuck", FALSE)]
Decision(answer) ==
  [action |-> Get(answer, "action", "fix"), summary |-> Get(answer, "summary", ""),
   stuck |-> Get(answer, "stuck", FALSE)]

\* Lines 308-359: the branch taken on a decision. approve and block are
\* tested first; the stuck flag is read on what remains.
Branch_StuckFirst(decision) ==
  CASE decision.stuck -> "stuck"
    [] decision.action = "approve" -> "approve"
    [] decision.action = "block" -> "block"
    [] OTHER -> "continue"
Branch(decision) ==
  CASE decision.action = "approve" -> "approve"
    [] decision.action = "block" -> "block"
    [] decision.stuck -> "stuck"
    [] OTHER -> "continue"

\* The notes around the decision (lines 268 and 297).
SynthNotes(kind) ==
  (IF SynthCaught(kind) THEN <<"synthesizer_error">> ELSE << >>) \o <<"synthesis">>

\* Lines 241-306: the synthesizer call ends (or the fallback decides), the
\* iteration is recorded in the history and the checkpoint is written. The
\* results of the coder and of the gather are not read after this point.
SynthResolves(answers) ==
  /\ pc = "synth"
  /\ \E w \in WorkerBehaviour(answers) :
       LET kind == CallWithTimeout(w.raw)
           decision == Decision(IF kind = "ok" THEN w.value
                                ELSE Fallback(qa_result, review_result))
           hist == Append(iteration_history,
                          HistoryEntry(iteration, decision, qa_result, review_result))
       IN /\ synth_kind' = kind
          /\ IF kind = "ok" \/ SynthCaught(kind)
               THEN /\ synthesis_result' = decision
                    /\ iteration_history' = hist
                    /\ checkpoint' =
                         SaveIterationState(dag_state.artifacts_dir, checkpoint,
                                            SavedState(iteration, decision.summary,
                                                       files_changed, hist))
                    /\ Emit(SynthNotes(kind))
                    /\ pc' = "act"
               ELSE /\ pc' = "raised"
                    /\ UNCHANGED <<synthesis_result, iteration_history, checkpoint,
                                   notes>>
  /\ coder_result' = NoCall
  /\ qa_arm' = Idle
  /\ review_arm' = Idle
  /\ qa_result' = NoValue
  /\ review_result' = NoValue
  /\ UNCHANGED <<max_iterations, iteration, feedback, files_changed, calls, result,
                 dag_state, run>>
  /\ UNCHANGED <<note_fn, other_vars>>

\* Lines 308-376 and the head of the next iteration: branch on the action.
Act ==
  /\ pc = "act"
  /\ LET branch == Branch(synthesis_result)
         summary == synthesis_result.summary
     IN CASE branch = "approve" ->
               /\ Return(Approved(iteration, summary, files_changed, iteration_history))
               /\ Emit(<<"complete">>)
               /\ UNCHANGED <<iteration, feedback, calls, coder_result, qa_arm,
                              review_arm, qa_result, review_result, synth_kind,
                              synthesis_result>>
          [] branch = "block" ->
               /\ Return(Blocked(iteration, summary, files_changed, iteration_history))
               /\ Emit(<<"blocked">>)
               /\ UNCHANGED <<iteration, feedback, calls, coder_result, qa_arm,
                              review_arm, qa_result, review_result, synth_kind,
                              synthesis_result>>
          [] OTHER ->
               /\ feedback' = summary
               /\ IF branch = "stuck"
                    THEN /\ Return(Stuck(iteration, summary, files_changed,
                                         iteration_history))
                         /\ Emit(<<"stuck">>)
                         /\ UNCHANGED <<iteration, calls, coder_result, qa_arm,
                                        review_arm, qa_result, review_result,
                                        synth_kind, synthesis_result>>
                    ELSE /\ LoopHead(iteration + 1, files_changed, iteration_history)
                         /\ Emit(HeadNotes(iteration + 1))
  /\ UNCHANGED <<max_iterations, files_changed, iteration_history, checkpoint, run>>
  /\ UNCHANGED <<note_fn, other_vars>>

Next ==
  \/ StartLoop
  \/ CoderReturns(CoderOutputs)
  \/ QAResolves(QAAnswers)
  \/ ReviewResolves(ReviewAnswers)
  \/ VerifyJoin
  \/ SynthResolves(SynthAnswers)
  \/ Act

Spec == Init /\ [][Next]_vars

\* ------------------------------------------- a coder that does not converge

\* Runs under the default iteration budget in which QA never passes, the
\* reviewer never approves and the synthesizer, when it answers, asks for a
\* fix without reporting stuck. Every call may still fail or time out.
LongCoderOutputs == {<< >>, <<"a.py">>}
LongQAAnswers == {[passed |-> FALSE, summary |-> "qa_summary"]}
LongReviewAnswers == [approved : {FALSE}, blocking : BOOLEAN, summary : {"review_summary"}]
LongSynthAnswers == {[action |-> "fix", summary |-> "synth_summary", stuck |-> FALSE]}

InitLong == InitWith({DefaultMaxIterations})

NextLong ==
  \/ StartLoop
  \/ CoderReturns(LongCoderOutputs)
  \/ QAResolves(LongQAAnswers)
  \/ ReviewResolves(LongReviewAnswers)
  \/ VerifyJoin
  \/ SynthResolves(LongSynthAnswers)
  \/ Act

SpecLong == InitLong /\ [][NextLong]_vars

\* ------------------------------------------------------ crash and resume

\* run_coding_loop is entered again for the same issue: the process that ran
\* it died at some await, or the orchestrator calls it once more after it
\* returned or raised. What was in memory is gone; the checkpoint file, the
\* arguments and what the workers were asked so far remain.
Restart ==
  /\ pc # "start"
  /\ run < MaxRuns
  /\ run' = run + 1
  /\ pc' = "start"
  /\ iteration' = 0
  /\ feedback' = ""
  /\ files_changed' = << >>
  /\ iteration_history' = << >>
  /\ ResetLocals
  /\ result' = NoResult
  /\ notes' = << >>
  /\ UNCHANGED <<max_iterations, checkpoint, calls, dag_state>>
  /\ UNCHANGED <<note_fn, other_vars>>

\* Workers that leave the decision to the synthesizer: the coder reports a
\* file it reported before or a new one as well, QA does not pass, the
\* reviewer neither approves nor blocks. Every call may still fail or time
\* out.
ResumeCoderOutputs == {<<"a.py">>, <<"b.py", "a.py">>}
ResumeQAAnswers == {[passed |-> FALSE, summary |-> "qa_summary"]}
ResumeReviewAnswers ==
  {[approved |-> FALSE, blocking |-> FALSE, summary |-> "review_summary"]}
ResumeSynthAnswers ==
  {[action |-> "fix", summary |-> "synth_summary", stuck |-> FALSE],
   [action |-> "fix", summary |-> "synth_summary", stuck |-> TRUE],
   [action |-> "approve", summary |-> "synth_summary", stuck |-> FALSE],
   [action |-> "block", summary |-> "synth_summary", stuck |-> FALSE]}

InitResume == InitRun({MaxIter}, DagStates)

NextResume ==
  \/ StartLoop
  \/ CoderReturns(ResumeCoderOutputs)
  \/ QAResolves(ResumeQAAnswers)
  \/ ReviewResolves(ResumeReviewAnswers)
  \/ VerifyJoin
  \/ SynthResolves(ResumeSynthAnswers)
  \/ Act
  \/ Restart

SpecResume == InitResume /\ [][NextResume]_vars

\* ------------------------------------- failures of the file and the sink

\* Line 109: the checkpoint file is there but open() or json.load() raises
\* (unreadable, or not the JSON the loop wrote). Nothing around the call
\* catches it.
LoadFails ==
  /\ pc = "start"
  /\ IterationStatePath(dag_state.artifacts_dir, IssueName) # NoPath
  /\ checkpoint # NoValue
  /\ Emit(<<"start">>)
  /\ pc' = "raised"
  /\ UNCHANGED <<max_iterations, iteration, feedback, files_changed, iteration_history,
                 checkpoint, coder_result, qa_arm, review_arm, qa_result, review_result,
                 synth_kind, synthesis_result, calls, result, dag_state, run>>
  /\ UNCHANGED <<note_fn, other_vars>>

\* Lines 281-306 when os.makedirs(), open() or json.dump() raises: the
\* decision is in the in-memory history, the file is as it was or, when the
\* write broke off, no longer readable. Nothing around the call catches it.
SaveFails(answers) ==
  /\ pc = "synth"
  /\ IterationStatePath(dag_state.artifacts_dir, IssueName) # NoPath
  /\ \E w \in WorkerBehaviour(answers) :
       LET kind == CallWithTimeout(w.raw)
           decision == Decision(IF kind = "ok" THEN w.value
                                ELSE Fallback(qa_result, review_result))
       IN /\ synth_kind' = kind
          /\ synthesis_result' = decision
          /\ iteration_history' =
               Append(iteration_history,
                      HistoryEntry(iteration, decision, qa_result, review_result))
          /\ Emit(SynthNotes(kind))
  /\ checkpoint' \in {checkpoint, Corrupt}
  /\ pc' = "raised"
  /\ UNCHANGED <<max_iterations, iteration, feedback, files_changed, coder_result,
                 qa_arm, review_arm, qa_result, review_result, calls, result,
                 dag_state, run>>
  /\ UNCHANGED <<note_fn, other_vars>>

\* A note sink was supplied and raises: on the starting note (lines 97-101)
\* or on the note of the decision's branch (lines 310, 326, 346). The calls
\* of note_fn are not guarded.
NoteRaises ==
  /\ pc \in {"start", "act"}
  /\ note_fn
  /\ pc' = "raised"
  /\ UNCHANGED <<max_iterations, iteration, feedback, files_changed, iteration_history,
                 checkpoint, coder_result, qa_arm, review_arm, qa_result, review_result,
                 synth_kind, synthesis_result, calls, result, dag_state, run, notes>>
  /\ UNCHANGED <<note_fn, other_vars>>

NextFaults ==
  \/ StartLoop
  \/ CoderReturns(ResumeCoderOutputs)
  \/ QAResolves(ResumeQAAnswers)
  \/ ReviewResolves(ResumeReviewAnswers)
  \/ VerifyJoin
  \/ SynthResolves(ResumeSynthAnswers)
  \/ Act
  \/ Restart
  \/ LoadFails
  \/ SaveFails(ResumeSynthAnswers)
  \/ NoteRaises

\* With and without a note sink.
InitFaults == InitSink({MaxIter}, DagStates, BOOLEAN)

SpecFaults == InitFaults /\ [][NextFaults]_vars

\* ------------------------------------------------ the stuck-loop detector

\* What the detector reads of a history entry.
DetectorKinds == [action : {"fix", "approve", "block"}, review_blocking : BOOLEAN]

\* The histories of up to MaxHistory iterations, numbered from 1.
DetectorHistories ==
  UNION {{[i \in 1..n |->
            [iteration |-> i, action |-> f[i].action, summary |-> "summary",
             qa_passed |-> FALSE, review_approved |-> FALSE,
             review_blocking |-> f[i].review_blocking]] :
          f \in [1..n -> DetectorKinds]} : n \in 0..MaxHistory}

InitDetect ==
  /\ pc = "detect"
  /\ max_iterations = DefaultMaxIterations
  /\ iteration = 0
  /\ feedback = ""
  /\ files_changed = << >>
  /\ iteration_history \in DetectorHistories
  /\ checkpoint = NoValue
  /\ FreshLocals
  /\ calls = << >>
  /\ result = NoResult
  /\ dag_state = TestDagState
  /\ run = 1
  /\ note_fn = FALSE
  /\ notes = << >>
  /\ window \in 1..MaxWindow
  /\ detected = FALSE
  /\ LiveAtRest
  /\ ConcAtRest
  /\ PlanAtRest
  /\ PermAtRest
  /\ CtxAtRest

\* _detect_stuck_loop(iteration_history, window)
Detect ==
  /\ pc = "detect"
  /\ detected' = DetectStuckLoop(iteration_history, window)
  /\ pc' = "detected"
  /\ UNCHANGED <<max_iterations, iteration, feedback, files_changed, iteration_history,
                 checkpoint, coder_result, qa_arm, review_arm, qa_result, review_result,
                 synth_kind, synthesis_result, calls, result, dag_state, run, window,
                 note_fn, notes>>
  /\ UNCHANGED <<at_start, conc_vars, plan_vars, perm_vars, ctx_vars>>

NextDetect == Detect

SpecDetect == InitDetect /\ [][NextDetect]_vars

\* ------------------------------------------------------------- properties

Last(s) == s[Len(s)]

\* How many calls of a role were made for an iteration.
CallsFor(role, it) == Cardinality({i \in DOMAIN calls : calls[i] = Call(role, it)})

\* No call was made for an iteration later than `it`.
NoCallAfter(it) == \A i \in DOMAIN calls : calls[i].iteration <= it

\* The files accumulated before the iteration in progress: those of the last
\* checkpoint, none before the first one.
FilesBefore == IF checkpoint = NoValue THEN << >> ELSE checkpoint.files_changed

\* C1: run_coding_loop never raises: whatever mix of answers, errors and
\* timeouts the coder, QA, reviewer and synthesizer calls end in, no exception
\* leaves the loop, the loop can always take its next step until it returns,
\* and what it returns carries an outcome of IssueOutcome.
C1_NeverRaises ==
  /\ pc # "raised"
  /\ pc = "returned" => result.outcome \in IssueOutcome
  /\ pc # "returned" => ENABLED Next

\* A run that returned after a synthesizer failure in iteration 1 and a coder
\* timeout in iteration 2.
C1_Witness ==
  /\ pc = "returned"
  /\ iteration = 2
  /\ coder_result.kind = "timeout"
  /\ iteration_history[1].summary = "auto_fix"

\* C2: a coder call of iteration k that errors or times out ends the loop at
\* once: failed_unrecoverable, attempts = k, a message naming the coder, the
\* files accumulated before iteration k, no QA, reviewer or synthesizer call
\* for iteration k and no call for a later iteration.
C2_CoderFailureIsFatal ==
  IsException(coder_result.kind) =>
    /\ pc = "returned"
    /\ result.outcome = "failed_unrecoverable"
    /\ result.attempts = iteration
    /\ result.error_message.text = "coder_agent_failed"
    /\ result.files_changed = FilesBefore
    /\ CallsFor("run_qa", iteration) = 0
    /\ CallsFor("run_code_reviewer", iteration) = 0
    /\ CallsFor("run_qa_synthesizer", iteration) = 0
    /\ Last(calls) = Call("run_coder", iteration)
    /\ NoCallAfter(iteration)

\* The coder fails in iteration 2, after iteration 1 changed a file.
C2_Witness ==
  /\ pc = "returned"
  /\ iteration = 2
  /\ coder_result.kind = "error"
  /\ result.files_changed = <<"a.py">>

\* After the gather, each arm stands for itself.
C3_Joined ==
  pc = "synth" =>
    /\ qa_arm.kind \in {"ok", "error", "timeout"}
    /\ review_arm.kind \in {"ok", "error", "timeout"}
    /\ IsException(qa_arm.kind) => qa_result.passed = FALSE /\ qa_result \notin QAAnswers
    /\ qa_arm.kind = "ok" => qa_result = qa_arm.value
    /\ IsException(review_arm.kind) =>
         /\ review_result.approved = TRUE
         /\ review_result.blocking = FALSE
         /\ review_result \notin ReviewAnswers
    /\ review_arm.kind = "ok" => review_result = review_arm.value

\* While the gather waits, a resolved arm keeps what it resolved to, and once
\* both have resolved the loop goes on to the synthesizer.
C3_Waiting ==
  pc = "verify" =>
    /\ qa_arm.kind # "inflight" => qa_arm' = qa_arm
    /\ review_arm.kind # "inflight" => review_arm' = review_arm
    /\ pc' \in {"verify", "synth"}
    /\ pc' = "synth" => qa_arm.kind # "inflight" /\ review_arm.kind # "inflight"

\* C3: in the Verify stage each arm resolves independently: a failed or timed
\* out QA call is replaced by the default passed=false, a failed or timed out
\* reviewer call by the default approved=true, blocking=false, an arm that
\* answered keeps its answer whatever the other arm did, and the loop goes on
\* to Synthesize in all four combinations.
C3_VerifyArmsIndependent == []C3_Joined /\ [][C3_Waiting]_vars

\* The QA call timed out, the reviewer's blocking answer is kept.
C3_Witness ==
  /\ pc = "synth"
  /\ qa_arm.kind = "timeout"
  /\ review_arm.kind = "ok"
  /\ review_result = [approved |-> FALSE, blocking |-> TRUE, summary |-> "review_summary"]

\* C4: every iteration dispatches exactly two verify calls, QA and reviewer,
\* together and against the same coder result, and the synthesizer call of the
\* iteration is dispatched only after both have resolved.
C4_TwoVerifyCallsThenSynth ==
  /\ \A k \in 1..max_iterations :
       /\ CallsFor("run_qa", k) <= 1
       /\ CallsFor("run_code_reviewer", k) = CallsFor("run_qa", k)
       /\ CallsFor("run_qa_synthesizer", k) <= CallsFor("run_qa", k)
  /\ \A i \in DOMAIN calls :
       calls[i].role = "run_qa" =>
         /\ i + 1 \in DOMAIN calls
         /\ calls[i + 1] = Call("run_code_reviewer", calls[i].iteration)
  /\ pc = "verify" =>
       /\ CallsFor("run_qa", iteration) = 1
       /\ CallsFor("run_qa_synthesizer", iteration) = 0
       /\ coder_result.kind = "ok"
       /\ qa_arm.kind # "idle" /\ qa_arm.input = coder_result.value
       /\ review_arm.kind # "idle" /\ review_arm.input = coder_result.value
  /\ CallsFor("run_qa_synthesizer", iteration) = 1 =>
       /\ qa_arm.kind # "inflight"
       /\ review_arm.kind # "inflight"
  /\ pc = "synth" =>
       /\ Last(calls) = Call("run_qa_synthesizer", iteration)
       /\ qa_arm.kind \in {"ok", "error", "timeout"}
       /\ review_arm.kind \in {"ok", "error", "timeout"}
       /\ qa_arm.input = coder_result.value
       /\ review_arm.input = coder_result.value

\* The synthesizer of iteration 2 is dispatched after both arms failed.
C4_Witness ==
  /\ pc = "synth"
  /\ iteration = 2
  /\ qa_arm.kind = "error"
  /\ review_arm.kind = "timeout"
  /\ coder_result.value = <<"b.py", "a.py">>

\* approve if QA passed and the review is approved and non-blocking;
\* otherwise block if the review is blocking; otherwise fix.
DecisionFrom(qa_passed, review_approved, review_blocking) ==
  IF qa_passed /\ review_approved /\ ~review_blocking THEN "approve"
  ELSE IF review_blocking THEN "block"
  ELSE "fix"

\* C5: when the synthesizer call errors or times out the issue does not fail
\* for that: the decision of the iteration is the one computed from the
\* (possibly defaulted) QA and review results, and the loop acts on it as on
\* any decision.
C5_SynthFallback ==
  IsException(synth_kind) =>
    /\ pc \in {"act", "returned"}
    /\ LET e == Last(iteration_history) IN
         /\ e.iteration = iteration
         /\ e.action = DecisionFrom(e.qa_passed, e.review_approved, e.review_blocking)
         /\ synthesis_result.action = e.action
         /\ pc = "returned" =>
              CASE e.action = "approve" -> result.outcome = "completed"
                [] e.action = "block" ->
                     /\ result.outcome = "failed_unrecoverable"
                     /\ result.error_message = Msg("summary", synthesis_result.summary)
                [] OTHER ->
                     /\ iteration = max_iterations
                     /\ result.error_message.text = "coding_loop_exhausted"

\* The synthesizer failed; QA passed and the review is approved but blocking:
\* the fallback blocks.
C5_Witness ==
  /\ pc = "act"
  /\ synth_kind = "error"
  /\ Last(iteration_history).qa_passed
  /\ Last(iteration_history).review_approved
  /\ Last(iteration_history).action = "block"

\* C6: a decision approve in iteration k ends the loop: outcome completed,
\* attempts = k, the last history entry is the approve of iteration k, and no
\* call of iteration k+1 is made; no iteration follows an approve.
C6_ApproveCompletes ==
  /\ pc = "returned" /\ synthesis_result.action = "approve" =>
       /\ result.outcome = "completed"
       /\ result.attempts = iteration
       /\ Last(result.iteration_history).action = "approve"
       /\ Last(result.iteration_history).iteration = iteration
       /\ NoCallAfter(iteration)
  /\ \A i \in DOMAIN iteration_history :
       iteration_history[i].action = "approve" =>
         /\ i = Len(iteration_history)
         /\ pc \in {"act", "returned"}
         /\ NoCallAfter(iteration_history[i].iteration)

\* Fix in iteration 1, approve in iteration 2.
C6_Witness ==
  /\ pc = "returned"
  /\ result.outcome = "completed"
  /\ result.attempts = 2
  /\ result.iteration_history[1].action = "fix"
  /\ result.iteration_history[2].action = "approve"

\* C7: a reviewer result with blocking=true in iteration k ends the loop at
\* iteration k: the entry of iteration k is the last one and has action block,
\* and the loop returns failed_unrecoverable with attempts = k.
C7_BlockingReviewEndsLoop ==
  \A i \in DOMAIN iteration_history :
    iteration_history[i].review_blocking =>
      /\ i = Len(iteration_history)
      /\ iteration_history[i].action = "block"
      /\ pc \in {"act", "returned"}
      /\ pc = "returned" =>
           /\ result.outcome = "failed_unrecoverable"
           /\ result.attempts = iteration_history[i].iteration

\* C8: a decision block in iteration k ends the loop: failed_unrecoverable,
\* attempts = k, the decision's summary as error message, and no call of
\* iteration k+1; no iteration follows a block.
C8_BlockFails ==
  /\ pc = "returned" /\ synthesis_result.action = "block" =>
       /\ result.outcome = "failed_unrecoverable"
       /\ result.attempts = iteration
       /\ result.error_message = Msg("summary", synthesis_result.summary)
       /\ NoCallAfter(iteration)
  /\ \A i \in DOMAIN iteration_history :
       iteration_history[i].action = "block" =>
         /\ i = Len(iteration_history)
         /\ pc \in {"act", "returned"}
         /\ NoCallAfter(iteration_history[i].iteration)

\* The synthesizer blocks in iteration 2 although the review is not blocking.
C8_Witness ==
  /\ pc = "returned"
  /\ synth_kind = "ok"
  /\ synthesis_result.action = "block"
  /\ result.attempts = 2
  /\ ~Last(result.iteration_history).review_blocking

\* C9: when the synthesizer answers fix with stuck=true in iteration k, the
\* loop ends at iteration k, with completed_with_debt if a file was changed
\* and the review of iteration k is non-blocking, and with
\* failed_unrecoverable otherwise.
C9_StuckFlagSplitsOnDebt ==
  pc = "returned" /\ synth_kind = "ok" /\ synthesis_result.action = "fix"
    /\ synthesis_result.stuck =>
      /\ result.attempts = iteration
      /\ result.outcome =
           IF result.files_changed # << >>
                /\ ~Last(result.iteration_history).review_blocking
             THEN "completed_with_debt"
             ELSE "failed_unrecoverable"

\* C10: window-based stuck detection: as soon as the last 3 history entries
\* are all non-blocking fixes the loop ends, whatever budget is left and
\* whether or not the synthesizer reports stuck: no further call is
\* dispatched, and the loop returns completed_with_debt if a file was changed
\* and failed_unrecoverable otherwise, with the iteration of the last entry
\* as attempts.
C10_WindowStuckEndsLoop ==
  /\ pc \in {"coder", "verify", "synth"} =>
       ~DetectStuckLoop(iteration_history, StuckWindow)
  /\ pc = "returned" /\ DetectStuckLoop(result.iteration_history, StuckWindow) =>
       /\ result.attempts = Last(result.iteration_history).iteration
       /\ result.outcome =
            IF result.files_changed # << >> THEN "completed_with_debt"
            ELSE "failed_unrecoverable"

\* The last n entries of a history.
LastEntries(history, n) ==
  [i \in 1..n |-> history[Len(history) - n + i]]

\* C11: the stuck-loop detector answers true exactly when the history has at
\* least `window` entries and each of the last `window` entries is a fix with
\* a non-blocking review: it answers false for an empty or too short history,
\* false when an entry in the window is not a fix or carries a blocking
\* review, and the entries older than the window have no say.
C11_DetectorReadsWindowOnly ==
  pc = "detected" =>
    LET n == Len(iteration_history) IN
    /\ n = 0 => ~detected
    /\ n < window => ~detected
    /\ n >= window =>
         LET recent == LastEntries(iteration_history, window) IN
         /\ (\E i \in 1..window :
                recent[i].action # "fix" \/ recent[i].review_blocking) => ~detected
         /\ (\A i \in 1..window :
                recent[i].action = "fix" /\ ~recent[i].review_blocking) => detected
         /\ detected = DetectStuckLoop(recent, window)

\* The detector fires on three non-blocking fixes that follow an approve.
C11_Witness ==
  /\ pc = "detected"
  /\ window = 3
  /\ Len(iteration_history) = 4
  /\ iteration_history[1].action = "approve"
  /\ detected

\* C12: when the iteration budget is used up without an approve, a block or
\* a stuck detection, at least one file was changed and the last review is
\* non-blocking, the loop returns completed_with_debt with attempts =
\* max_coding_iterations.
C12_ExhaustionAcceptsDebt ==
  /\ pc = "returned"
  /\ iteration_history # << >>
  /\ Last(iteration_history).iteration = max_iterations
  /\ Last(iteration_history).action = "fix"
  /\ ~synthesis_result.stuck
  /\ ~DetectStuckLoop(iteration_history, StuckWindow)
  /\ files_changed # << >>
  /\ ~Last(iteration_history).review_blocking
  => /\ result.outcome = "completed_with_debt"
     /\ result.attempts = max_iterations

NoApprove(history) == \A i \in DOMAIN history : history[i].action # "approve"

\* C13: a run in which no coder call reported a changed file and no iteration
\* was approved returns failed_unrecoverable with an empty files_changed,
\* also when every review was non-blocking.
C13_NoFilesNoApprovalFails ==
  pc = "returned" /\ files_changed = << >> /\ NoApprove(iteration_history) =>
    /\ result.outcome = "failed_unrecoverable"
    /\ result.files_changed = << >>

\* The budget of two iterations is used up, no file was changed and both
\* reviews were non-blocking.
C13_Witness ==
  /\ pc = "returned"
  /\ result.error_message.text = "coding_loop_exhausted"
  /\ result.files_changed = << >>
  /\ Len(result.iteration_history) = 2
  /\ \A i \in 1..2 : ~result.iteration_history[i].review_blocking

\* C18: a run ends in one outcome, which is completed, completed_with_debt or
\* failed_unrecoverable, never failed_retryable, failed_needs_split,
\* failed_escalated or skipped; before it ends there is no result.
C18_OneTerminalOutcome ==
  /\ pc = "returned" =>
       /\ result.outcome \in {"completed", "completed_with_debt", "failed_unrecoverable"}
       /\ result.outcome \notin {"failed_retryable", "failed_needs_split",
                                 "failed_escalated", "skipped"}
  /\ pc # "returned" => result = NoResult

\* A run that ended on the synthesizer's stuck flag in its second iteration.
C18_Witness ==
  /\ pc = "returned"
  /\ result.error_message.text = "stuck_loop_detected"
  /\ result.attempts = 2
  /\ result.outcome = "failed_unrecoverable"

Elements(s) == {s[i] : i \in DOMAIN s}

NoDuplicates(s) == \A i, j \in DOMAIN s : s[i] = s[j] => i = j

IsPrefix(s, t) == Len(s) <= Len(t) /\ SubSeq(t, 1, Len(s)) = s

\* What one step of a run does to files_changed: the start of a run sets it
\* to the checkpointed files (none without a checkpoint), a coder answer adds
\* exactly the files it reports, keeping what was there, and no other step
\* touches it. Entering the function again starts from an empty list.
C14_Step ==
  CASE pc' = "start" -> files_changed' = << >>
    [] pc = "start" -> files_changed' = FilesBefore
    [] pc = "coder" /\ coder_result'.kind = "ok" ->
         /\ IsPrefix(files_changed, files_changed')
         /\ Elements(files_changed') =
              Elements(files_changed) \cup Elements(coder_result'.value)
    [] OTHER -> files_changed' = files_changed

\* C14: at every point of the loop files_changed has no duplicates, never
\* shrinks and is the union of the checkpointed files (when resumed) and of
\* the files reported by the successful coder calls so far, so that a file
\* reported again does not change it; the returned result carries it.
C14_FilesAreDedupedUnion ==
  /\ [](/\ NoDuplicates(files_changed)
        /\ pc = "returned" => result.files_changed = files_changed)
  /\ [][C14_Step]_vars

\* A resumed run whose checkpoint holds a.py: the coder reports a.py again,
\* with b.py.
C14_Witness ==
  /\ pc = "verify"
  /\ run = 2
  /\ checkpoint # NoValue
  /\ checkpoint.files_changed = <<"a.py">>
  /\ coder_result.value = <<"b.py", "a.py">>
  /\ files_changed = <<"a.py", "b.py">>

\* The step that begins a run (lines 103-132).
C15_Step ==
  pc = "start" /\ pc' # "start" =>
    IF checkpoint # NoValue
      THEN /\ feedback' = checkpoint.feedback
           /\ files_changed' = checkpoint.files_changed
           /\ iteration_history' = checkpoint.iteration_history
           /\ IF checkpoint.iteration + 1 <= max_iterations
                THEN /\ pc' = "coder"
                     /\ iteration' = checkpoint.iteration + 1
                     /\ calls' = Append(calls, Call("run_coder", checkpoint.iteration + 1))
                ELSE /\ pc' = "returned"
                     /\ calls' = calls
      ELSE /\ feedback' = ""
           /\ files_changed' = << >>
           /\ iteration_history' = << >>
           /\ pc' = "coder"
           /\ iteration' = 1
           /\ calls' = Append(calls, Call("run_coder", 1))

\* C15: with a checkpoint of iteration N, a restarted run dispatches its
\* first coder call for iteration N+1 with the checkpointed feedback and
\* starts from the checkpointed files_changed and iteration_history; without
\* a checkpoint it starts at iteration 1 with empty feedback, files and
\* history.
C15_ResumeAtNextIteration == [][C15_Step]_vars

\* The second run resumes at iteration 2 from the checkpoint of iteration 1.
C15_Witness ==
  /\ pc = "coder"
  /\ run = 2
  /\ checkpoint # NoValue
  /\ checkpoint.iteration = 1
  /\ iteration = 2
  /\ feedback = "synth_summary"
  /\ files_changed = <<"b.py", "a.py">>
  /\ Len(iteration_history) = 1

\* The checkpoint of the iteration whose decision is known.
CheckpointOfIteration ==
  [iteration |-> iteration, feedback |-> synthesis_result.summary,
   files_changed |-> files_changed, iteration_history |-> iteration_history]

\* Once the decision of iteration k is known the file holds the checkpoint of
\* iteration k, entry of iteration k included; it still does when the loop
\* has returned on that decision, and while the coder works on iteration k+1
\* the file holds iteration k.
C16_Persisted ==
  /\ pc = "act" =>
       /\ Last(iteration_history).iteration = iteration
       /\ checkpoint = CheckpointOfIteration
  /\ pc = "returned" /\ synthesis_result # NoDecision =>
       checkpoint = CheckpointOfIteration
  /\ pc = "coder" /\ iteration > 1 =>
       /\ checkpoint # NoValue
       /\ checkpoint.iteration = iteration - 1
       /\ checkpoint.iteration_history = iteration_history

\* C16 as stated: in every iteration k that reaches Synthesize the checkpoint
\* {iteration = k, feedback = decision summary, files_changed,
\* iteration_history with the entry of k} is on file once the decision is
\* known and before the loop acts on it: before it returns on approve, block
\* or stuck and before the coder call of iteration k+1.
C16_CheckpointBeforeAct ==
  pc \in {"act", "returned", "coder"} => C16_Persisted

\* C16, amended: the same, for a run whose DAGState names an artifacts
\* directory.
C16_CheckpointBeforeActWithStore ==
  dag_state.artifacts_dir # "" => C16_Persisted

\* The second iteration of a run is decided (fix, not stuck) and its
\* checkpoint is on file while the loop has not acted yet.
C16_Witness ==
  /\ pc = "act"
  /\ dag_state.artifacts_dir # ""
  /\ iteration = 2
  /\ synthesis_result.action = "fix"
  /\ checkpoint # NoValue
  /\ checkpoint.iteration = 2
  /\ Len(checkpoint.iteration_history) = 2

StrictlyIncreasing(history) ==
  \A i, j \in DOMAIN history : i < j => history[i].iteration < history[j].iteration

CoderIterations == {calls[i].iteration : i \in {j \in DOMAIN calls : calls[j].role = "run_coder"}}

\* A coder call dispatched while a checkpoint exists is for the iteration
\* after the checkpointed one: not for iteration 1 and for no iteration
\* before one the coder was already asked for.
C17_Step ==
  calls' # calls /\ Last(calls').role = "run_coder" /\ checkpoint # NoValue =>
    /\ Last(calls').iteration > 1
    /\ Last(calls').iteration = checkpoint.iteration + 1
    /\ \A k \in CoderIterations : k <= Last(calls').iteration

\* C17: over runs, crashes and resumes of an issue, once a checkpoint exists
\* the iteration number handed to the coder never decreases and never starts
\* again at 1, and the iteration numbers of the history entries, in memory
\* and on file, increase strictly in list order.
C17_IterationMonotonic ==
  /\ [](/\ StrictlyIncreasing(iteration_history)
        /\ checkpoint # NoValue => StrictlyIncreasing(checkpoint.iteration_history)
        /\ pc = "returned" => StrictlyIncreasing(result.iteration_history))
  /\ [][C17_Step]_vars

\* The first run crashed in its second iteration; the second run asks the
\* coder for iteration 2 again, the history on file holding iteration 1.
C17_Witness ==
  /\ run = 2
  /\ pc = "coder"
  /\ iteration = 2
  /\ Len(calls) >= 3
  /\ calls[Len(calls) - 1].role # "run_qa_synthesizer"
  /\ CallsFor("run_coder", 2) = 2

\* C19: no failure of a step that is not a worker call leaves the loop: the
\* checkpoint file failing to load or to save and a raising note sink all end
\* in a returned IssueResult, never in an exception.
C19_NoFailureEscapes ==
  /\ pc # "raised"
  /\ pc = "returned" => result.outcome \in IssueOutcome

\* C20: run_coding_loop leaves the DAGState it is handed as it was: no step
\* of a run, on any path, changes a field of it; the result reaches the
\* caller as the returned IssueResult only.
C20_DagStateUntouched ==
  [][/\ dag_state' = dag_state
     /\ pc' = "returned" => result'.outcome \in IssueOutcome]_vars

\* An approved run of a plan that already has a completed and a failed issue.
C20_Witness ==
  /\ pc = "returned"
  /\ result.outcome = "completed"
  /\ dag_state.completed_issues = <<"ISSUE-0">>
  /\ dag_state.failed_issues = <<"ISSUE-2">>
  /\ dag_state.replan_count = 1

\* ------------------------------------------------------ runs with a note sink

InitNotes == InitSink(1..MaxIter, {TestDagState}, {TRUE})

SpecNotes == InitNotes /\ [][Next]_vars

\* The lifecycle stage a note is tagged with.
Stage(note) == note.tags[2]

\* How many of the notes received so far carry a stage.
NotesTagged(stage) == Cardinality({i \in DOMAIN notes : Stage(notes[i]) = stage})

CoderCalls == Cardinality({i \in DOMAIN calls : calls[i].role = "run_coder"})

\* What the sink has received whatever the way the run ends: the start note
\* first, an iteration note for each coder call, a synthesis note for each
\* recorded decision, every note tagged coding_loop and with the issue name.
C26_NotesSoFar ==
  /\ pc # "start" => notes # << >> /\ Stage(notes[1]) = "start"
  /\ NotesTagged("start") <= 1
  /\ NotesTagged("iteration") = CoderCalls
  /\ pc = "coder" => Stage(Last(notes)) = "iteration"
  /\ NotesTagged("synthesis") = Len(iteration_history)
  /\ \A i \in DOMAIN notes :
       notes[i].tags[1] = "coding_loop" /\ notes[i].tags[3] = IssueName

\* C26: when a note sink is supplied, every run emits a note tagged start
\* before any other note, a note tagged iteration before each coder call, a
\* note tagged synthesis once per decision and, before returning, a note
\* tagged complete, blocked, stuck or exhausted; every note carries the issue
\* name and the coding_loop tag.
C26_NotesAtEveryStage ==
  note_fn =>
    /\ C26_NotesSoFar
    /\ pc = "returned" =>
         Stage(Last(notes)) \in {"complete", "blocked", "stuck", "exhausted"}

\* C26 as the code has it: a run that ends on a failed coder call closes with
\* a note tagged coder_error, every other run with the note of its outcome.
C26_NotesAtEveryStageOrCoderError ==
  note_fn =>
    /\ C26_NotesSoFar
    /\ pc = "returned" =>
         Stage(Last(notes)) =
           CASE result.error_message.text = "coder_agent_failed" -> "coder_error"
             [] result.error_message.text = "stuck_loop_detected" -> "stuck"
             [] result.error_message.text = "coding_loop_exhausted" -> "exhausted"
             [] result.outcome = "completed" -> "complete"
             [] OTHER -> "blocked"

\* A run with a sink whose coder failed in the second iteration, after the
\* notes of a whole first iteration.
C26_Witness ==
  /\ note_fn
  /\ pc = "returned"
  /\ result.attempts = 2
  /\ Stage(Last(notes)) = "coder_error"
  /\ NotesTagged("synthesis") = 1

\* ------------------------------------------------ the order of the stages

\* The call dispatched just before the i-th one.
Previous(i) == calls[i - 1]

\* The log of dispatched calls follows coder, QA, reviewer, synthesizer of an
\* iteration and then the coder of the next one.
StagesInOrder ==
  \A i \in DOMAIN calls :
    LET k == calls[i].iteration IN
    CASE calls[i].role = "run_coder" ->
           i > 1 => Previous(i) = Call("run_qa_synthesizer", k - 1)
      [] calls[i].role = "run_qa" ->
           i > 1 /\ Previous(i) = Call("run_coder", k)
      [] calls[i].role = "run_code_reviewer" ->
           i > 1 /\ Previous(i) = Call("run_qa", k)
      [] OTHER ->
           i > 1 /\ Previous(i) = Call("run_code_reviewer", k)

CheckpointAfter(n) ==
  SavedState(n, "synth_summary", <<"a.py">>,
             [i \in 1..n |->
               HistoryEntry(i, [action |-> "fix", summary |-> "synth_summary",
                                stuck |-> FALSE],
                            QADefault, [approved |-> FALSE, blocking |-> FALSE])])

\* A run that starts from no checkpoint or from the checkpoint of any
\* iteration of the same budget.
InitLive ==
  /\ InitLoopFrom(1..MaxIter, {TestDagState}, {FALSE},
                  {NoValue} \cup {CheckpointAfter(n) : n \in 1..MaxIter})
  /\ checkpoint # NoValue => checkpoint.iteration <= max_iterations
  /\ at_start = checkpoint
  /\ DetectAtRest
  /\ ConcAtRest
  /\ PlanAtRest
  /\ PermAtRest
  /\ CtxAtRest

\* Every dispatched call returns, errors or is cut off by its timeout, and
\* the event loop goes on running the coroutine: a step that can be taken is
\* taken. Every step of the loop changes its position or resolves an arm of
\* the gather.
progress_vars == <<pc, qa_arm.kind, review_arm.kind>>

SpecLive == InitLive /\ [][Next]_vars /\ WF_progress_vars(Next)

\* start_iteration: 1, or the checkpointed iteration + 1.
StartIterationOfRun == IF at_start = NoValue THEN 1 ELSE at_start.iteration + 1

IssueNames == {"ISSUE-1", "ISSUE-2"}
PlanArtifactsDir == "artifacts"

\* The checkpoint file of an issue of the plan.
PathOf(name) == IterationStatePath(PlanArtifactsDir, name)

\* A file that was never written, and a file with the issue that wrote it.
NoFile == [content |-> NoValue, writer |-> "none"]
FileBy(name, state) == [content |-> state, writer |-> name]

\* What the workers answer in one iteration of the loop of an issue: the
\* coder fails, or reports a file and the synthesizer decides. QA does not
\* pass and the reviewer neither approves nor blocks.
IterationAnswers(name) ==
  {[coder |-> "error", files |-> << >>, decision |-> NoDecision]}
    \cup {[coder |-> "ok", files |-> <<name>>, decision |-> d] : d \in ResumeSynthAnswers}

\* The locals of run_coding_loop for an issue before line 97.
NewLoop(name) ==
  [name |-> name, pc |-> "start", iteration |-> 0, feedback |-> "",
   files_changed |-> << >>, iteration_history |-> << >>,
   decision |-> NoDecision, answers |-> << >>, read |-> "none",
   result |-> NoResult]

\* The head of the for loop for iteration `it`.
AtHead(l, it) ==
  IF LoopContinues(it)
    THEN [l EXCEPT !.pc = "coder", !.iteration = it]
    ELSE [l EXCEPT !.pc = "returned",
                   !.result = Exhausted(l.files_changed, l.iteration_history)]

\* Lines 103-121: the loop reads the file at its path and resumes from it.
Begin(l, file) ==
  LET existing_state == file.content
      resumed == existing_state # NoValue
  IN AtHead([l EXCEPT !.feedback = IF resumed THEN existing_state.feedback ELSE "",
                      !.files_changed =
                         IF resumed THEN existing_state.files_changed ELSE << >>,
                      !.iteration_history =
                         IF resumed THEN existing_state.iteration_history ELSE << >>,
                      !.read = file.writer],
            IF resumed THEN StartIteration(existing_state) ELSE 1)

\* Lines 130-306: one pass from the coder call to the checkpoint.
Iterate(l, r) ==
  IF r.coder = "ok"
    THEN [l EXCEPT !.pc = "act",
                   !.files_changed = TrackFiles(l.files_changed, r.files),
                   !.iteration_history =
                      Append(l.iteration_history,
                             HistoryEntry(l.iteration, r.decision, QADefault,
                                          [approved |-> FALSE, blocking |-> FALSE])),
                   !.decision = r.decision,
                   !.answers = Append(l.answers, r)]
    ELSE [l EXCEPT !.pc = "returned",
                   !.result = CoderFailed(l.iteration, r.coder, l.files_changed,
                                          l.iteration_history),
                   !.answers = Append(l.answers, r)]

\* Lines 308-359 and the head of the next iteration.
ActOn(l) ==
  LET summary == l.decision.summary IN
  CASE l.decision.action = "approve" ->
         [l EXCEPT !.pc = "returned",
                   !.result = Approved(l.iteration, summary, l.files_changed,
                                       l.iteration_history)]
    [] l.decision.action = "block" ->
         [l EXCEPT !.pc = "returned",
                   !.result = Blocked(l.iteration, summary, l.files_changed,
                                      l.iteration_history)]
    [] OTHER ->
         IF l.decision.stuck
           THEN [l EXCEPT !.pc = "returned", !.feedback = summary,
                          !.result = Stuck(l.iteration, summary, l.files_changed,
                                           l.iteration_history)]
           ELSE AtHead([l EXCEPT !.feedback = summary], l.iteration + 1)

\* The loop of an issue starts: it loads the file at the issue's path.
ConcStart(name) ==
  /\ loops[name].pc = "start"
  /\ loops' = [loops EXCEPT ![name] = Begin(@, store[PathOf(name)])]
  /\ UNCHANGED store

\* The loop of an issue runs one iteration and, unless the coder failed,
\* writes the file at the issue's path.
ConcIterate(name) ==
  /\ loops[name].pc = "coder"
  /\ \E r \in IterationAnswers(name) :
       LET l == Iterate(loops[name], r) IN
       /\ loops' = [loops EXCEPT ![name] = l]
       /\ store' =
            IF r.coder = "ok"
              THEN [store EXCEPT ![PathOf(name)] =
                      FileBy(name, SavedState(l.iteration, l.decision.summary,
                                              l.files_changed, l.iteration_history))]
              ELSE store

\* The loop of an issue acts on its decision.
ConcAct(name) ==
  /\ loops[name].pc = "act"
  /\ loops' = [loops EXCEPT ![name] = ActOn(@)]
  /\ UNCHANGED store

\* Both loops are about to start; each issue has no checkpoint or the one an
\* earlier run of the same issue wrote after its first iteration.
InitConcurrent ==
  /\ InitLoop({MaxIter}, {TestDagState}, {FALSE})
  /\ store \in [{PathOf(n) : n \in IssueNames} -> {NoFile} \cup
                  {FileBy(n, CheckpointAfter(1)) : n \in IssueNames}]
  /\ \A n \in IssueNames : store[PathOf(n)].writer \in {"none", n}
  /\ loops = [n \in IssueNames |-> NewLoop(n)]
  /\ at_start = store
  /\ DetectAtRest
  /\ PlanAtRest
  /\ PermAtRest
  /\ CtxAtRest

\* The steps of the two loops touch nothing but the loops and the files.
OnlyLoops == UNCHANGED <<loop_vars, detect_vars, at_start, plan_vars, perm_vars, ctx_vars>>

NextConcurrent ==
  \/ \E name \in IssueNames : ConcStart(name) /\ OnlyLoops
  \/ \E name \in IssueNames : ConcIterate(name) /\ OnlyLoops
  \/ \E name \in IssueNames : ConcAct(name) /\ OnlyLoops

SpecConcurrent == InitConcurrent /\ [][NextConcurrent]_vars

\* The result of the loop of an issue run alone: from the file its path held
\* at the start, on the answers `rs`, starting with the i-th.
RECURSIVE Drive(_, _, _)
Drive(l, rs, i) ==
  CASE l.pc = "returned" -> l.result
    [] l.pc = "act" -> Drive(ActOn(l), rs, i)
    [] OTHER -> IF i > Len(rs) THEN NoResult ELSE Drive(Iterate(l, rs[i]), rs, i + 1)

RunAlone(name, file, rs) == Drive(Begin(NewLoop(name), file), rs, 1)

\* C21: two coding loops working on two different issues of one plan, in
\* any interleaving: neither reads or overwrites the checkpoint record of
\* the other, and each returns the IssueResult it would return alone on the
\* same worker answers.
C21_LoopsIsolated ==
  \A n \in IssueNames :
    /\ store[PathOf(n)].writer \in {"none", n}
    /\ loops[n].read \in {"none", n}
    /\ loops[n].pc = "returned" =>
         loops[n].result = RunAlone(n, at_start[PathOf(n)], loops[n].answers)

\* ISSUE-2 resumed from its own checkpoint and returned after ISSUE-1, which
\* started from nothing, had written its checkpoint and was still running.
C21_Witness ==
  /\ loops["ISSUE-2"].pc = "returned"
  /\ loops["ISSUE-2"].read = "ISSUE-2"
  /\ loops["ISSUE-2"].result.attempts = 2
  /\ loops["ISSUE-1"].pc = "act"
  /\ loops["ISSUE-1"].read = "none"
  /\ store[PathOf("ISSUE-1")].writer = "ISSUE-1"

\* ------------------------------------------------ PermissionsRepository

\* The most permission records the repository is given.
MaxRecords == 3

UserIds == {"alice", "bob"}
ResourceIds == {"r1", "r2"}
TeamIds == {"t1"}
AccessLevel == {"system", "team", "user"}

\* team_id=None (or an empty string: `not team_id`).
NoTeam == ""

PermissionRecord(resource_id, owner_id, access_level, team_id) ==
  [resource_id |-> resource_id, owner_id |-> owner_id,
   access_level |-> access_level, team_id |-> team_id]

\* grant raises ValueError for a team-level record without a team.
GrantRaises(access_level, team_id) == access_level = "team" /\ team_id = NoTeam

\* PermissionsRepository.grant: the records after the call.
Granted(recs, resource_id, owner_id, access_level, team_id) ==
  IF GrantRaises(access_level, team_id)
    THEN recs
    ELSE Append(recs, PermissionRecord(resource_id, owner_id, access_level, team_id))

\* self._user_teams.get(user_id, set())
TeamsOf(user_id) == IF user_id \in DOMAIN user_teams THEN user_teams[user_id] ELSE {}

\* The three tests of the loop body of check_access.
Allows_AnyUserRecord(rec, user_id, teams) ==
  \/ rec.access_level = "system"
  \/ rec.access_level = "user"
  \/ rec.access_level = "team" /\ rec.team_id # NoTeam /\ rec.team_id \in teams
Allows(rec, user_id, teams) ==
  \/ rec.access_level = "system"
  \/ rec.access_level = "user" /\ rec.owner_id = user_id
  \/ rec.access_level = "team" /\ rec.team_id # NoTeam /\ rec.team_id \in teams

\* for rec in records: return True at the first record that allows.
RECURSIVE ScanRecords(_, _, _, _)
ScanRecords(recs, i, user_id, teams) ==
  IF i > Len(recs) THEN FALSE
  ELSE IF Allows(recs[i], user_id, teams) THEN TRUE
  ELSE ScanRecords(recs, i + 1, user_id, teams)

\* records = [r for r in self._records if r.resource_id == resource_id]
RecordsOf(resource_id) ==
  SelectSeq(records, LAMBDA r : r.resource_id = resource_id)

\* PermissionsRepository.check_access
CheckAccess(user_id, resource_id) ==
  IF RecordsOf(resource_id) = << >> THEN FALSE
  ELSE ScanRecords(RecordsOf(resource_id), 1, user_id, TeamsOf(user_id))

Grant(resource_id, owner_id, access_level, team_id) ==
  /\ Len(records) < MaxRecords
  /\ records' = Granted(records, resource_id, owner_id, access_level, team_id)
  /\ UNCHANGED user_teams

\* self._user_teams.setdefault(user_id, set()).add(team_id)
AddUserToTeam(user_id, team_id) ==
  /\ user_teams' = [u \in DOMAIN user_teams \cup {user_id} |->
                      IF u = user_id THEN TeamsOf(u) \cup {team_id} ELSE user_teams[u]]
  /\ UNCHANGED records

\* A repository as the constructor leaves it.
InitPermissions ==
  /\ InitLoop({MaxIter}, {TestDagState}, {FALSE})
  /\ records = << >>
  /\ user_teams = << >>
  /\ DetectAtRest
  /\ LiveAtRest
  /\ ConcAtRest
  /\ PlanAtRest
  /\ CtxAtRest

\* The repository's methods touch nothing but the repository.
OnlyPermissions ==
  UNCHANGED <<loop_vars, detect_vars, at_start, conc_vars, plan_vars, ctx_vars>>

NextPermissions ==
  \/ \E r \in ResourceIds, o \in UserIds, a \in AccessLevel, t \in TeamIds \cup {NoTeam} :
       Grant(r, o, a, t) /\ OnlyPermissions
  \/ \E u \in UserIds, t \in TeamIds : AddUserToTeam(u, t) /\ OnlyPermissions

SpecPermissions == InitPermissions /\ [][NextPermissions]_vars

\* The users and resources check_access is asked about: those of the
\* repository, a user nobody named and a resource nobody granted.
QueryUsers == UserIds \cup {"carol"}
QueryResources == ResourceIds \cup {"r0"}

\* C27: after any grants and add_user_to_team calls, check_access(u, r) is
\* true exactly when some record of r is system-level, or user-level with
\* owner u, or team-level with a team u belongs to; it is false for a
\* resource without a record and for a user-level resource owned only by
\* another user.
C27_CheckAccessIffSomeRecordAllows ==
  \A u \in QueryUsers, r \in QueryResources :
    /\ CheckAccess(u, r) <=>
         \E i \in DOMAIN records :
           /\ records[i].resource_id = r
           /\ \/ records[i].access_level = "system"
              \/ records[i].access_level = "user" /\ records[i].owner_id = u
              \/ /\ records[i].access_level = "team"
                 /\ u \in DOMAIN user_teams
                 /\ records[i].team_id \in user_teams[u]
    /\ (\A i \in DOMAIN records : records[i].resource_id # r) => ~CheckAccess(u, r)
    /\ (\A i \in DOMAIN records :
          records[i].resource_id = r =>
            records[i].access_level = "user" /\ records[i].owner_id # u)
         => ~CheckAccess(u, r)

\* r1 is user-level for alice and team-level for t1, bob is in t1: bob is
\* let in by the second record, carol is not let in, and r2 has no record.
C27_Witness ==
  /\ Len(records) = 2
  /\ records[1] = PermissionRecord("r1", "alice", "user", NoTeam)
  /\ records[2] = PermissionRecord("r1", "alice", "team", "t1")
  /\ CheckAccess("bob", "r1")
  /\ ~CheckAccess("carol", "r1")
  /\ ~CheckAccess("bob", "r2")

\* ----------------------------------------------------- ContextAssembler

\* The most documents and ADRs the assembler is given.
MaxDocs == 2
MaxAdrs == 1

SecurityLevel == {"public", "internal", "confidential"}

\* user_id=None or owner_id=None (or an empty string: `user_id or ...`).
NoUser == ""

\* document_id=None or adr_id=None, and the ids a caller passes.
NoId == ""
GivenIds == {"x1"}

\* doc_id = document_id or str(uuid.uuid4()): the id the caller passed, or
\* one no other item has (n counts the items added before).
ItemId(given, n) == IF given # NoId THEN [given |-> given] ELSE [uuid |-> n]

\* _DocumentEntry / _ADREntry, with the owner_id the item was added with
\* (the code does not keep it in the entry).
Entry(id, security_level, owner_id) ==
  [id |-> id, security_level |-> security_level, owner_id |-> owner_id]

\* The grant of add_document / add_adr: system-level for a public item,
\* user-level for any other item with an owner, none otherwise.
GrantFor(recs, id, security_level, owner_id) ==
  IF security_level = "public"
    THEN Granted(recs, id, IF owner_id # NoUser THEN owner_id ELSE "system",
                 "system", NoTeam)
  ELSE IF owner_id # NoUser
    THEN Granted(recs, id, owner_id, "user", NoTeam)
  ELSE recs

ItemsAdded == Len(documents) + Len(adrs)

\* ContextAssembler.add_document
AddDocument(document_id, security_level, owner_id) ==
  /\ Len(documents) < MaxDocs
  /\ LET doc_id == ItemId(document_id, ItemsAdded) IN
       /\ documents' = Append(documents, Entry(doc_id, security_level, owner_id))
       /\ records' = GrantFor(records, doc_id, security_level, owner_id)
  /\ UNCHANGED <<adrs, user_teams>>

\* ContextAssembler.add_adr
AddAdr(adr_id, security_level, owner_id) ==
  /\ Len(adrs) < MaxAdrs
  /\ LET a_id == ItemId(adr_id, ItemsAdded) IN
       /\ adrs' = Append(adrs, Entry(a_id, security_level, owner_id))
       /\ records' = GrantFor(records, a_id, security_level, owner_id)
  /\ UNCHANGED <<documents, user_teams>>

\* effective_user = user_id or "__anonymous__"
EffectiveUser(user_id) == IF user_id # NoUser THEN user_id ELSE "__anonymous__"

\* ContextAssembler.get_context: the documents and ADRs of the bundle.
GetContext(user_id) ==
  [documents |-> SelectSeq(documents,
                           LAMBDA d : CheckAccess(EffectiveUser(user_id), d.id)),
   adrs |-> SelectSeq(adrs, LAMBDA a : CheckAccess(EffectiveUser(user_id), a.id))]

\* An assembler with its own repository, as the constructor leaves them.
InitContext ==
  /\ InitLoop({MaxIter}, {TestDagState}, {FALSE})
  /\ documents = << >>
  /\ adrs = << >>
  /\ records = << >>
  /\ user_teams = << >>
  /\ DetectAtRest
  /\ LiveAtRest
  /\ ConcAtRest
  /\ PlanAtRest

\* The assembler's methods touch nothing but the assembler and its repository.
OnlyContext == UNCHANGED <<loop_vars, detect_vars, at_start, conc_vars, plan_vars>>

NextContext ==
  \/ \E id \in GivenIds \cup {NoId}, level \in SecurityLevel, owner \in UserIds \cup {NoUser} :
       AddDocument(id, level, owner) /\ OnlyContext
  \/ \E id \in GivenIds \cup {NoId}, level \in SecurityLevel, owner \in UserIds \cup {NoUser} :
       AddAdr(id, level, owner) /\ OnlyContext

SpecContext == InitContext /\ [][NextContext]_vars

\* The items of a bundle.
BundleItems(bundle) == Elements(bundle.documents) \cup Elements(bundle.adrs)

\* C28: get_context never discloses another user's private items: after any
\* add_document and add_adr calls, the bundle for user b holds no document
\* or ADR that was added with a non-public security level and an owner other
\* than b, and the bundle of a request without user_id holds only items
\* added as public.
C28_NoPrivateDisclosure ==
  \A b \in UserIds \cup {NoUser} :
    \A item \in BundleItems(GetContext(b)) :
      /\ item.security_level # "public" /\ item.owner_id # NoUser => item.owner_id = b
      /\ b = NoUser => item.security_level = "public"

\* ------------------------------------- the advisor and the replanner

\* The deepest chain of sub-issues a plan is followed to.
MaxDepth == 3

\* ExecutionConfig.max_advisor_invocations and DAGState.max_replans.
DefaultMaxAdvisorInvocations == 2
DefaultMaxReplans == 2

AdvisorAction ==
  {"retry_approach", "retry_modified", "split", "accept_with_debt", "escalate_to_replan"}
ReplanAction == {"continue", "modify_dag", "reduce_scope", "abort"}

\* Issue names are paths: the issue of the plan, and under it the sub-issue
\* a split makes of it.
RootIssue == <<1>>
SubIssueName(name) == Append(name, 1)

\* parent_issue_name: str = ""
NoParent == << >>

\* IssueAdaptation(adaptation_type=...)
IssueAdaptation(type) == [adaptation_type |-> type, severity |-> "medium"]

\* An issue as the orchestrator holds it: its parent reference, who is to
\* handle it next, and the advisor fields of its IssueResult.
NewIssue(parent) ==
  [parent_issue_name |-> parent, awaiting |-> "loop", outcome |-> "none",
   advisor_invocations |-> 0, adaptations |-> << >>, debt_items |-> << >>,
   advised |-> "none", applied |-> "none", escalation_context |-> ""]

\* The replan fields and the debt ledger of DAGState.
NewPlan ==
  [replan_count |-> 0, replan_history |-> << >>, max_replans |-> DefaultMaxReplans,
   accumulated_debt |-> << >>]

\* remaining = max_advisor_invocations - advisor_invocation, for the
\* invocation that would come next.
Remaining(issue) == DefaultMaxAdvisorInvocations - (issue.advisor_invocations + 1)

\* The advisor may be invoked once more for the issue.
AdvisorBudgetLeft_Always(issue) == TRUE
AdvisorBudgetLeft(issue) == Remaining(issue) >= 0

\* The replanner may be invoked once more for the plan.
ReplanBudgetLeft_Always(p) == TRUE
ReplanBudgetLeft(p) == p.replan_count < p.max_replans

\* if issue.get("parent_issue_name"): the issue was made by a split.
AlreadySplit(issue) == issue.parent_issue_name # NoParent

\* A split of an issue that was itself made by a split is turned into
\* accept_with_debt; every other decision is applied as advised.
EffectiveAction_AsAdvised(issue, action) == action
EffectiveAction(issue, action) ==
  IF action = "split" /\ AlreadySplit(issue) THEN "accept_with_debt" ELSE action

\* The decisions that are recorded as an adaptation, and those that leave
\* a debt item.
AdaptingActions == {"retry_modified", "accept_with_debt", "split"}
DebtActions == {"retry_modified", "accept_with_debt"}

\* The audit trail after a decision.
Adapted_Latest(adaptations, applied) ==
  IF applied \in AdaptingActions THEN <<IssueAdaptation(applied)>> ELSE adaptations
Adapted(adaptations, applied) ==
  IF applied \in AdaptingActions
    THEN Append(adaptations, IssueAdaptation(applied))
    ELSE adaptations

\* The coding loop of an issue returns completed.
LoopCompletes(name) ==
  /\ build = "running"
  /\ issues[name].awaiting = "loop"
  /\ issues' = [issues EXCEPT ![name].awaiting = "none", ![name].outcome = "completed"]
  /\ UNCHANGED <<build, plan>>

\* The coding loop of an issue returns failed_unrecoverable: the issue goes
\* to the advisor.
LoopFails(name) ==
  /\ build = "running"
  /\ issues[name].awaiting = "loop"
  /\ issues' = [issues EXCEPT ![name].awaiting = "advisor",
                              ![name].outcome = "failed_unrecoverable"]
  /\ UNCHANGED <<build, plan>>

\* The issue after the advisor was invoked and advised `action`.
Advised(issue, action) ==
  LET applied == EffectiveAction(issue, action)
      decided == [issue EXCEPT !.advisor_invocations = @ + 1,
                               !.advised = action,
                               !.applied = applied,
                               !.adaptations = Adapted(@, applied),
                               !.debt_items = IF applied \in DebtActions
                                                THEN Append(@, [from |-> applied])
                                                ELSE @]
  IN CASE applied \in {"retry_approach", "retry_modified"} ->
            [decided EXCEPT !.awaiting = "loop"]
       [] applied = "accept_with_debt" ->
            [decided EXCEPT !.awaiting = "none", !.outcome = "completed_with_debt"]
       [] applied = "split" ->
            [decided EXCEPT !.awaiting = "none", !.outcome = "failed_needs_split"]
       [] OTHER ->
            [decided EXCEPT !.awaiting = "replanner", !.outcome = "failed_escalated",
                            !.escalation_context = "advisor"]

\* The orchestrator invokes the advisor for a failed issue and applies its
\* decision; an applied split adds the sub-issue, and accepted debt goes to
\* the ledger of the plan.
AdvisorDecides(name, action) ==
  /\ build = "running"
  /\ issues[name].awaiting = "advisor"
  /\ AdvisorBudgetLeft(issues[name])
  /\ LET after == Advised(issues[name], action) IN
       /\ after.applied = "split" => Len(name) < MaxDepth
       /\ issues' =
            IF after.applied = "split"
              THEN [n \in DOMAIN issues \cup {SubIssueName(name)} |->
                     IF n = name THEN after
                     ELSE IF n = SubIssueName(name) THEN NewIssue(name)
                     ELSE issues[n]]
              ELSE [issues EXCEPT ![name] = after]
       /\ plan' = IF after.applied = "accept_with_debt"
                    THEN [plan EXCEPT !.accumulated_debt = Append(@, name)]
                    ELSE plan
  /\ UNCHANGED build

\* The advisor budget of a failed issue is used up: the issue goes to the
\* replanner instead of the advisor.
BudgetExhausted(name) ==
  /\ build = "running"
  /\ issues[name].awaiting = "advisor"
  /\ ~AdvisorBudgetLeft(issues[name])
  /\ issues' = [issues EXCEPT ![name].awaiting = "replanner",
                              ![name].escalation_context = "budget"]
  /\ UNCHANGED <<build, plan>>

\* The plan after one more replanner decision.
Replanned(p, action) ==
  [p EXCEPT !.replan_count = @ + 1, !.replan_history = Append(@, action)]

\* The orchestrator invokes the replanner for an escalated issue: continue
\* closes the issue as accepted debt, modify_dag hands it to the coding loop
\* again, reduce_scope skips it, abort halts the build.
Replan(name, action) ==
  /\ build = "running"
  /\ issues[name].awaiting = "replanner"
  /\ ReplanBudgetLeft(plan)
  /\ plan' = IF action = "continue"
               THEN [Replanned(plan, action) EXCEPT !.accumulated_debt = Append(@, name)]
               ELSE Replanned(plan, action)
  /\ issues' =
       CASE action = "continue" ->
              [issues EXCEPT ![name].awaiting = "none",
                             ![name].outcome = "completed_with_debt"]
         [] action = "modify_dag" ->
              [issues EXCEPT ![name].awaiting = "loop", ![name].escalation_context = ""]
         [] action = "reduce_scope" ->
              [issues EXCEPT ![name].awaiting = "none", ![name].outcome = "skipped"]
         [] OTHER ->
              [issues EXCEPT ![name].awaiting = "none"]
  /\ build' = IF action = "abort" THEN "aborted" ELSE build

\* The replan budget is used up: the escalated issue stays failed.
ReplanBudgetExhausted(name) ==
  /\ build = "running"
  /\ issues[name].awaiting = "replanner"
  /\ ~ReplanBudgetLeft(plan)
  /\ issues' = [issues EXCEPT ![name].awaiting = "none"]
  /\ UNCHANGED <<build, plan>>

\* A plan of one issue is about to run.
InitPlan ==
  /\ InitLoop({MaxIter}, {TestDagState}, {FALSE})
  /\ issues = [n \in {RootIssue} |-> NewIssue(NoParent)]
  /\ build = "running"
  /\ plan = NewPlan
  /\ DetectAtRest
  /\ LiveAtRest
  /\ ConcAtRest
  /\ PermAtRest
  /\ CtxAtRest

\* The orchestrator touches nothing but the plan.
OnlyPlan == UNCHANGED <<loop_vars, detect_vars, at_start, conc_vars, perm_vars, ctx_vars>>

NextPlan ==
  \/ \E name \in DOMAIN issues : LoopCompletes(name) /\ OnlyPlan
  \/ \E name \in DOMAIN issues : LoopFails(name) /\ OnlyPlan
  \/ \E name \in DOMAIN issues, action \in AdvisorAction :
       AdvisorDecides(name, action) /\ OnlyPlan
  \/ \E name \in DOMAIN issues : BudgetExhausted(name) /\ OnlyPlan
  \/ \E name \in DOMAIN issues, action \in ReplanAction :
       Replan(name, action) /\ OnlyPlan
  \/ \E name \in DOMAIN issues : ReplanBudgetExhausted(name) /\ OnlyPlan

SpecPlan == InitPlan /\ [][NextPlan]_vars

\* C22: an issue that carries a parent_issue_name is never split again: a
\* split advised for it is applied as accept_with_debt, so no issue has a
\* parent that has a parent itself.
C22_NoSecondSplit ==
  \A n \in DOMAIN issues :
    AlreadySplit(issues[n]) =>
      /\ issues[n].parent_issue_name \in DOMAIN issues
      /\ ~AlreadySplit(issues[issues[n].parent_issue_name])
      /\ issues[n].outcome # "failed_needs_split"
      /\ issues[n].advised = "split" =>
           issues[n].applied = "accept_with_debt" /\ issues[n].outcome = "completed_with_debt"
      /\ \A m \in DOMAIN issues : issues[m].parent_issue_name # n

\* The sub-issue of a split failed, the advisor advised to split it and it
\* was closed with debt instead.
C22_Witness ==
  /\ SubIssueName(RootIssue) \in DOMAIN issues
  /\ issues[RootIssue].outcome = "failed_needs_split"
  /\ issues[SubIssueName(RootIssue)].advised = "split"
  /\ issues[SubIssueName(RootIssue)].applied = "accept_with_debt"

\* What a step may do to the advisor count of an issue: raise it by one
\* while budget is left; an issue waiting for the advisor without budget can
\* only be handed to the replanner.
C23_Step ==
  \A n \in DOMAIN issues :
    /\ issues'[n].advisor_invocations # issues[n].advisor_invocations =>
         /\ issues[n].advisor_invocations < DefaultMaxAdvisorInvocations
         /\ issues'[n].advisor_invocations = issues[n].advisor_invocations + 1
    /\ /\ issues[n].awaiting = "advisor"
       /\ issues[n].advisor_invocations = DefaultMaxAdvisorInvocations
       /\ issues'[n] # issues[n]
       => /\ issues'[n].awaiting = "replanner"
          /\ issues'[n].escalation_context = "budget"

\* C23: advisor_invocations <= max_advisor_invocations for every issue in
\* every state: the advisor is not invoked for an issue whose count reached
\* the budget, and the exhausted budget is surfaced as escalation to the
\* plan level instead of one more advisor call.
C23_AdvisorBudget ==
  /\ [](\A n \in DOMAIN issues :
         /\ issues[n].advisor_invocations <= DefaultMaxAdvisorInvocations
         /\ issues[n].escalation_context = "budget" =>
              issues[n].advisor_invocations = DefaultMaxAdvisorInvocations)
  /\ [][C23_Step]_vars

\* An issue used both advisor invocations, failed again and was handed to
\* the replanner for lack of budget.
C23_Witness ==
  /\ issues[RootIssue].advisor_invocations = DefaultMaxAdvisorInvocations
  /\ issues[RootIssue].awaiting = "replanner"
  /\ issues[RootIssue].escalation_context = "budget"

\* What a step may do to the replan fields: nothing, or one more replan
\* with one more entry at the end of the history.
C24_Step ==
  /\ plan'.replan_count >= plan.replan_count
  /\ IsPrefix(plan.replan_history, plan'.replan_history)
  /\ plan'.replan_count # plan.replan_count \/ plan'.replan_history # plan.replan_history =>
       /\ plan'.replan_count = plan.replan_count + 1
       /\ Len(plan'.replan_history) = Len(plan.replan_history) + 1

\* C24: replan_count <= max_replans in every DAGState, every replanner
\* invocation appends exactly one decision to replan_history, so the length
\* of the history equals replan_count and never decreases.
C24_ReplansBounded ==
  /\ [](/\ plan.replan_count <= plan.max_replans
        /\ Len(plan.replan_history) = plan.replan_count)
  /\ [][C24_Step]_vars

\* Both replans of the budget were used, the second one aborted the build.
C24_Witness ==
  /\ plan.replan_count = plan.max_replans
  /\ Len(plan.replan_history) = 2
  /\ plan.replan_history[2] = "abort"
  /\ build = "aborted"

\* What a step may do to the audit trail: an advisor decision of
\* retry_modified, accept_with_debt or split adds one adaptation at the end,
\* nothing else changes the adaptations, and debt is only added.
C25_Step ==
  /\ \A n \in DOMAIN issues :
       /\ IsPrefix(issues[n].adaptations, issues'[n].adaptations)
       /\ IsPrefix(issues[n].debt_items, issues'[n].debt_items)
       /\ Len(issues'[n].adaptations) =
            Len(issues[n].adaptations) +
              (IF /\ issues'[n].advisor_invocations # issues[n].advisor_invocations
                  /\ issues'[n].applied \in AdaptingActions
                 THEN 1 ELSE 0)
  /\ IsPrefix(plan.accumulated_debt, plan'.accumulated_debt)

\* C25: the adaptation and debt lists are append-only: every advisor outcome
\* retry_modified, accept_with_debt or split appends exactly one
\* IssueAdaptation to the adaptations of the issue, and no step of the
\* coding loop, the advisor or the replanner removes or rewrites an
\* adaptation or a debt item.
C25_AuditTrailAppendOnly == [][C25_Step]_vars

\* An issue with two adaptations: its criteria were relaxed, it failed
\* again and was closed with debt.
C25_Witness ==
  /\ Len(issues[RootIssue].adaptations) = 2
  /\ issues[RootIssue].adaptations[1].adaptation_type = "retry_modified"
  /\ issues[RootIssue].adaptations[2].adaptation_type = "accept_with_debt"
  /\ Len(issues[RootIssue].debt_items) = 2

\* ------------------------------------------------- feedback to the coder

\* The coder call in flight was dispatched with the `feedback` local (line
\* 137), which nothing assigns while the call is awaited.
FeedbackPassed == feedback

\* C31: the feedback passed to the coder is empty on iteration 1 of a fresh
\* run; on every later iteration k+1 it is the summary of the decision of
\* iteration k, the synthesizer's or the fallback's; and in a run that loaded
\* a checkpoint it is the feedback stored in the checkpoint.
C31_FeedbackToCoder ==
  pc = "coder" =>
    LET existing_state == LoadIterationState(dag_state.artifacts_dir, checkpoint) IN
    /\ iteration = 1 => existing_state = NoValue /\ FeedbackPassed = ""
    /\ iteration > 1 =>
         /\ Last(iteration_history).iteration = iteration - 1
         /\ FeedbackPassed = Last(iteration_history).summary
         /\ FeedbackPassed \in {"synth_summary", "auto_fix"}
    /\ existing_state # NoValue => FeedbackPassed = existing_state.feedback

\* The first run decided iteration 1 by the fallback and died; the second
\* run hands the fallback's summary, as checkpointed, to the coder of
\* iteration 2.
C31_Witness ==
  /\ pc = "coder"
  /\ run = 2
  /\ iteration = 2
  /\ checkpoint # NoValue
  /\ checkpoint.feedback = "auto_fix"
  /\ FeedbackPassed = "auto_fix"
  /\ CallsFor("run_coder", 2) = 1

\* ------------------------------------- a run entered on an earlier run's file

\* The checkpoint file an earlier run left after n iterations, the first
\* n - 1 ending on a fix and the last on `action`.
LeftBy(n, action) ==
  [CheckpointAfter(n) EXCEPT !.iteration_history[n].action = action]

\* run_coding_loop is entered with no checkpoint or with the file an earlier
\* run left, whatever that run decided last. The budget is an argument of
\* each run (config.max_coding_iterations, line 82): the file may come from
\* a run with a larger one.
InitRerun ==
  /\ InitLoopFrom(1..MaxIter, {TestDagState}, {FALSE},
                  {NoValue} \cup {LeftBy(n, a) : n \in 1..(MaxIter + 1),
                                                 a \in {"fix", "approve", "block"}})
  /\ at_start = checkpoint
  /\ DetectAtRest
  /\ ConcAtRest
  /\ PlanAtRest
  /\ PermAtRest
  /\ CtxAtRest

SpecRerun == InitRerun /\ [][Next]_vars

\* C32: re-running is idempotent after a terminal decision: a run entered on
\* a checkpoint whose last iteration was an approve (a block) dispatches no
\* coder call and returns completed (failed_unrecoverable), as the first run
\* did.
C32_RerunIdempotent ==
  at_start # NoValue /\ Last(at_start.iteration_history).action \in {"approve", "block"} =>
    /\ CoderCalls = 0
    /\ pc = "returned" =>
         result.outcome = IF Last(at_start.iteration_history).action = "approve"
                            THEN "completed" ELSE "failed_unrecoverable"

\* C33: a run entered on a checkpoint of an iteration at or beyond
\* max_coding_iterations dispatches no worker call and returns
\* failed_unrecoverable with the exhaustion message, attempts =
\* max_coding_iterations and the checkpointed files_changed and
\* iteration_history, whatever action the checkpoint recorded last; the file
\* stays as it was.
C33_PastBudget ==
  at_start # NoValue /\ at_start.iteration >= max_iterations /\ pc # "start" =>
    /\ pc = "returned"
    /\ calls = << >>
    /\ result.outcome = "failed_unrecoverable"
    /\ result.error_message = Msg("coding_loop_exhausted", "")
    /\ result.attempts = max_iterations
    /\ result.files_changed = at_start.files_changed
    /\ result.iteration_history = at_start.iteration_history
    /\ checkpoint = at_start

\* A run with a budget of 1 entered on the file of an approved iteration 2.
C33_Witness ==
  /\ pc = "returned"
  /\ max_iterations = 1
  /\ at_start # NoValue
  /\ at_start.iteration = 2
  /\ Last(at_start.iteration_history).action = "approve"
  /\ result.attempts = 1
  /\ Len(result.iteration_history) = 2

\* C34: attempt accounting. On a return caused by approve, block, stuck or
\* exhaustion, attempts is the iteration number of the last history entry,
\* and a run started fresh has as many entries as attempts; on a coder
\* failure at iteration k, attempts = k and the history holds only entries
\* of iterations before k.
C34_AttemptAccounting ==
  pc = "returned" =>
    IF IsException(coder_result.kind)
      THEN /\ result.attempts = iteration
           /\ \A i \in DOMAIN result.iteration_history :
                result.iteration_history[i].iteration < iteration
      ELSE /\ result.iteration_history # << >>
           /\ result.attempts = Last(result.iteration_history).iteration
           /\ at_start = NoValue => Len(result.iteration_history) = result.attempts

\* C34, amended: the same, except that the exhaustion return of a run entered
\* on a checkpoint beyond the budget has attempts = max_coding_iterations,
\* which is then below the iteration number of the last history entry.
C34_AttemptAccountingWithinBudget ==
  pc = "returned" =>
    IF IsException(coder_result.kind)
      THEN /\ result.attempts = iteration
           /\ \A i \in DOMAIN result.iteration_history :
                result.iteration_history[i].iteration < iteration
      ELSE /\ result.iteration_history # << >>
           /\ IF at_start # NoValue /\ at_start.iteration > max_iterations
                THEN /\ result.attempts = max_iterations
                     /\ result.error_message.text = "coding_loop_exhausted"
                ELSE result.attempts = Last(result.iteration_history).iteration
           /\ at_start = NoValue => Len(result.iteration_history) = result.attempts

\* A run resumed after iteration 1 whose coder call of iteration 2 timed
\* out: attempts is 2, the history holds iteration 1 only.
C34_Witness ==
  /\ pc = "returned"
  /\ at_start # NoValue
  /\ coder_result.kind = "timeout"
  /\ result.attempts = 2
  /\ Len(result.iteration_history) = 1
  /\ result.iteration_history[1].iteration = 1

\* C35: completed is returned only on an approve of the last executed
\* iteration: a returned result with outcome completed has a non-empty
\* history whose last entry is the approve of the iteration just run; a
\* stuck flag, exhaustion or a coder failure never gives completed.
C35_CompletedOnlyOnApprove ==
  pc = "returned" =>
    /\ result.outcome = "completed" =>
         /\ result.iteration_history # << >>
         /\ Last(result.iteration_history).action = "approve"
         /\ Last(result.iteration_history).iteration = iteration
         /\ synthesis_result.action = "approve"
         /\ CallsFor("run_qa_synthesizer", iteration) = 1
    /\ result.error_message.text \in
           {"stuck_loop_detected", "coding_loop_exhausted", "coder_agent_failed"} =>
         result.outcome # "completed"
    /\ IsException(coder_result.kind) => result.outcome # "completed"

\* A run resumed after iteration 1 completes on the approve of iteration 2.
C35_Witness ==
  /\ pc = "returned"
  /\ result.outcome = "completed"
  /\ at_start # NoValue
  /\ at_start.iteration = 1
  /\ result.attempts = 2
  /\ Last(result.iteration_history).action = "approve"

\* ------------------------------------------------ reading the decision

\* C36: approve and block take priority over the synthesizer's stuck flag: a
\* decision of approve with stuck=true ends the loop with completed, one of
\* block with stuck=true ends it with failed_unrecoverable by the block
\* return, and the stuck return is taken only on a decision that is neither.
C36_ApproveBlockBeforeStuck ==
  pc = "returned" =>
    /\ synthesis_result.stuck =>
         CASE synthesis_result.action = "approve" ->
                /\ result.outcome = "completed"
                /\ result.error_message = NoMsg
                /\ result.result_summary = synthesis_result.summary
           [] synthesis_result.action = "block" ->
                /\ result.outcome = "failed_unrecoverable"
                /\ result.error_message = Msg("summary", synthesis_result.summary)
           [] OTHER ->
                /\ result.outcome = "failed_unrecoverable"
                /\ result.error_message = Msg("stuck_loop_detected", synthesis_result.summary)
    /\ result.error_message.text = "stuck_loop_detected" =>
         /\ synthesis_result.stuck
         /\ synthesis_result.action \notin {"approve", "block"}

\* The synthesizer of iteration 2 answered block with stuck=true and the
\* loop returned by the block return.
C36_Witness ==
  /\ pc = "returned"
  /\ iteration = 2
  /\ synthesis_result.action = "block"
  /\ synthesis_result.stuck
  /\ result.outcome = "failed_unrecoverable"
  /\ result.error_message.text = "summary"

\* Synthesizer answers that do not follow QASynthesisResult: without an
\* action, without a summary, or with an action that QASynthesisAction does
\* not have; and well-formed ones beside them. The other workers leave the
\* decision to the synthesizer.
LooseSynthAnswers ==
  [summary : {"no_action_summary"}, stuck : BOOLEAN]
    \cup {[summary |-> "no_action_summary"], [stuck |-> FALSE]}
    \cup [action : {"retry", "APPROVE"}, summary : {"synth_summary"}, stuck : BOOLEAN]
    \cup [action : {"fix", "approve", "block"}, summary : {"synth_summary"},
          stuck : {FALSE}]

NextLoose ==
  \/ StartLoop
  \/ CoderReturns(ResumeCoderOutputs)
  \/ QAResolves(ResumeQAAnswers)
  \/ ReviewResolves(ResumeReviewAnswers)
  \/ VerifyJoin
  \/ SynthResolves(LooseSynthAnswers)
  \/ Act

SpecLoose == Init /\ [][NextLoose]_vars

\* The synthesizer answered, and its answer had no action or one outside
\* fix, approve and block.
LooseDecision ==
  /\ synth_kind = "ok"
  /\ \/ synthesis_result.action \notin {"fix", "approve", "block"}
     \/ synthesis_result.summary \in {"no_action_summary", ""}

\* What the loop does on such a decision.
C37_Step ==
  pc = "act" /\ LooseDecision =>
    /\ feedback' = synthesis_result.summary
    /\ result'.outcome # "completed"
    /\ result'.error_message.text # "summary"
    /\ IF synthesis_result.stuck
         THEN /\ pc' = "returned"
              /\ result' = Stuck(iteration, synthesis_result.summary, files_changed,
                                 iteration_history)
         ELSE IF iteration < max_iterations
           THEN /\ pc' = "coder"
                /\ iteration' = iteration + 1
                /\ calls' = Append(calls, Call("run_coder", iteration + 1))
                /\ result' = NoResult
           ELSE /\ pc' = "returned"
                /\ result' = Exhausted(files_changed, iteration_history)

\* C37: a synthesizer result without an action field, or with an action
\* outside fix, approve and block, is treated as a fix: the loop neither
\* approves nor blocks on it, sets the feedback to its summary and goes on to
\* the next iteration, or to the stuck or exhaustion return.
C37_UnknownActionIsFix ==
  /\ [](pc = "act" /\ LooseDecision =>
          Branch(synthesis_result) \in {"stuck", "continue"})
  /\ [][C37_Step]_vars

\* The synthesizer of iteration 1 answered without an action; the coder of
\* iteration 2 was dispatched with that answer's summary as feedback.
C37_Witness ==
  /\ pc = "coder"
  /\ iteration = 2
  /\ FeedbackPassed = "no_action_summary"
  /\ iteration_history[1].action = "fix"
  /\ Last(calls) = Call("run_coder", 2)

\* ------------------------------------------------------ degraded approval

\* The step in which the synthesizer call fails and the fallback decides.
C38_Step ==
  pc = "synth" /\ pc' = "act" /\ IsException(synth_kind') =>
    /\ IsException(review_arm.kind) /\ qa_arm.kind = "ok" /\ qa_arm.value.passed =>
         /\ review_result = ReviewDefault
         /\ synthesis_result'.action = "approve"
         /\ Last(iteration_history').action = "approve"
         /\ Last(iteration_history').review_approved
    /\ IsException(qa_arm.kind) =>
         /\ ~qa_result.passed
         /\ synthesis_result'.action # "approve"
         /\ IsException(review_arm.kind) => synthesis_result'.action = "fix"

\* C38: when the reviewer call fails, the QA call reports passed=true and
\* the synthesizer call fails too, the fallback decides approve and the
\* issue ends completed, with no real review result; whenever the QA call
\* failed, the fallback never decides approve.
C38_DegradedApproval ==
  /\ [][C38_Step]_vars
  /\ [](pc = "returned" /\ IsException(synth_kind) /\ synthesis_result.action = "approve" =>
          result = Approved(iteration, "auto_approve", files_changed, iteration_history))

\* Iteration 1: the reviewer and the synthesizer failed, QA answered, and the
\* issue was returned completed.
C38_Witness ==
  /\ pc = "returned"
  /\ iteration = 1
  /\ NotesTagged("review_error") = 1
  /\ NotesTagged("qa_error") = 0
  /\ NotesTagged("synthesizer_error") = 1
  /\ result.outcome = "completed"
  /\ result.result_summary = "auto_approve"

\* ------------------------------------------------ retry after a coder failure

\* What a run entered now would start from (lines 103-114).
RestartWould ==
  LET existing_state == LoadIterationState(dag_state.artifacts_dir, checkpoint) IN
  IF existing_state = NoValue
    THEN [iteration |-> 1, feedback |-> "", files_changed |-> << >>,
          iteration_history |-> << >>]
    ELSE [iteration |-> StartIteration(existing_state),
          feedback |-> ResumedFeedback(existing_state),
          files_changed |-> existing_state.files_changed,
          iteration_history |-> existing_state.iteration_history]

\* The loop returned on a failed coder call of iteration k: the file is that
\* of iteration k-1, or absent when k = 1, and a run entered now starts at
\* iteration k with the feedback, files and history the failed call had.
C39_Retried ==
  pc = "returned" /\ IsException(coder_result.kind) =>
    /\ IF iteration = 1 THEN checkpoint = NoValue
         ELSE checkpoint # NoValue /\ checkpoint.iteration = iteration - 1
    /\ RestartWould = [iteration |-> iteration, feedback |-> feedback,
                       files_changed |-> files_changed,
                       iteration_history |-> iteration_history]

\* C39 as stated: a coder failure at iteration k leaves the persisted
\* checkpoint as it was, recording iteration k-1 or absent when k = 1, so a
\* restarted loop retries iteration k with the same feedback, files_changed
\* and iteration_history.
C39_CoderFailureKeepsCheckpoint == C39_Retried

\* C39, amended: the same for a run whose DAGState names an artifacts
\* directory; without one there is no file after any iteration and a
\* restarted loop starts again at iteration 1 with nothing carried over.
C39_CoderFailureKeepsCheckpointWithStore ==
  IF dag_state.artifacts_dir # ""
    THEN C39_Retried
    ELSE /\ checkpoint = NoValue
         /\ RestartWould.iteration = 1
         /\ RestartWould.feedback = ""

\* The coder of iteration 2 failed in the first run; the second run asked
\* it for iteration 2 again, with the checkpointed feedback, and it failed
\* again.
C39_Witness ==
  /\ run = 2
  /\ pc = "returned"
  /\ coder_result.kind = "error"
  /\ iteration = 2
  /\ calls[Len(calls) - 1] = Call("run_coder", 2)
  /\ checkpoint # NoValue
  /\ checkpoint.iteration = 1
  /\ feedback = checkpoint.feedback
====
